---------------------------- MODULE Spec2Model ----------------------------
(***************************************************************************)
(* Model of the news fact-check pipeline of src/bot.py: the evidence merge *)
(* (_merge_news_items), candidate ranking and selection                    *)
(* (run_news_factcheck), the evidence scorer (_score_factcheck), the AI    *)
(* web-verdict blender (_blend_fact_scores) and the report renderer        *)
(* (build_factcheck_report).                                               *)
(*                                                                         *)
(* Numbers.  Python floats are modelled in fixed point: a probability,     *)
(* weight, relevance or confidence x is the integer x * Scale, Scale =     *)
(* 10^4, and products are rounded to the nearest unit.  Timestamps are     *)
(* counted in days.  Texts are modelled by what the code reads of them:    *)
(* whether they are empty, their length, whether cleaning empties them.    *)
(***************************************************************************)
EXTENDS Integers, Sequences, FiniteSets, TLC

VARIABLES
    \* ---- _score_factcheck / _blend_fact_scores ----
    items,        \* the evidence list handed to _score_factcheck
    ai_labels,    \* the ai_labels dict: one entry per index, "none" when absent
    scored,       \* the scorer's result dict, NoResult before the call
    ai_web,       \* the AI web verdict handed to _blend_fact_scores
    web_reply,    \* the reply _ai_factcheck_web_verdict got from the AI
    returned_web, \* what _ai_factcheck_web_verdict returned
    blended,      \* the blender's result dict, NoResult before the call
    claim_neg,    \* _contains_negation(claim) of the claim being checked
    \* ---- run_news_factcheck: retrieval, merge, selection ----
    fetched_rss,       \* the items the query feeds returned, in arrival order
    fetched_live,      \* the items the live search returned, in arrival order
    local_candidates,  \* the rows db_search_news_candidates returned
    factcheck,         \* what the run computed from them, NoRun before
    \* ---- a fact-check command: run_news_factcheck, build_factcheck_report ----
    openai_api_key,    \* bool(OPENAI_API_KEY), fixed when the process starts
    claim_text,        \* the text of the last call of run_news_factcheck
    run_result,        \* the dict it returned, NoCall before
    pc,                \* where the command is: idle, returned, guard, done
    lines,             \* the lines list of build_factcheck_report
    report,            \* the report it returned, as a list of lines
    refresh_calls,     \* calls of refresh_news_index so far
    fetch_calls,       \* query-feed and live-search fetches so far
    index_writes,      \* calls of db_upsert_news_items so far
    runs,              \* calls of run_news_factcheck so far
    \* ---- the network and AI calls of a run, each of which can fail ----
    responses,         \* what the calls of the run got back, in call order
    raised,            \* an exception escaped from a call into the run
    \* ---- refresh_news_index, called by the scheduler and the handlers ----
    clock,                 \* int(time.time()), in ticks
    NEWS_LOCK,             \* the thread that holds NEWS_LOCK, "none" if free
    NEWS_LAST_REFRESH_TS,  \* the global of line 438
    NEWS_FEED_CURSOR,      \* the global of line 439
    db_latest_fetch,       \* MAX(fetched_at) of news_index, 0 when empty
    rpc,                   \* where each thread is in refresh_news_index
    now_ts,                \* the now_ts of each thread (line 1286), 0 outside
    refreshed,             \* the "refreshed" of the last return of each thread
    pulls,                 \* the feed pulls made: thread and now_ts, in order
    prunes,                \* calls of db_prune_news_index so far
    \* ---- db_upsert_news_items, called from several threads ----
    news_index,        \* the rows of the table news_index, in rowid order
    DB_LOCK,           \* the thread that holds DB_LOCK, "none" if free
    upc,               \* where each thread is in db_upsert_news_items
    rows,              \* the rows list of each thread (lines 1189-1209)
    upsert_log,        \* the rows committed so far, in commit order
    skipped,           \* items passed over by line 1195 so far
    upsert_calls,      \* calls of db_upsert_news_items so far
    \* ---- the AI response cache ----
    AI_RESPONSE_CACHE, \* the expire_ts of the entries, in the dict's order
    AI_CACHE_LOCK,     \* the thread that holds AI_CACHE_LOCK, "none" if free
    cpc,               \* where each thread is in _ai_cache_get / _ai_cache_put
    cache_now,         \* the now_ts each call has read (lines 3095, 3110)
    cache_key,         \* the key of the call, by the entry it names
    cache_clock,       \* int(time.time()) of the cache's threads
    cache_ticks,       \* how often that clock has moved
    \* ---- the local summarizer: _extractive_summary_local ----
    sum_source,        \* the prepared text handed to the summarizer
    spc,               \* where the summarizer is: idle, rendering, done
    sum_summary,       \* the characters of summary in _render_summary_sections
    sum_points,        \* the lengths of the points in _render_summary_sections
    key_terms,         \* the lengths of the key terms in _render_summary_sections
    show_keywords,     \* show_keywords in _render_summary_sections
    sum_body,          \* the text returned: the path taken and its length
    \* ---- the similarity engine: _text_similarity ----
    sim_left,          \* the first text of the last call, as given
    sim_right,         \* the second text of the last call, as given
    similarity,        \* what the call returned, NoValue before
    \* ---- the pull loop of refresh_news_index (lines 1293-1306) ----
    max_feeds,         \* NEWS_REFRESH_MAX_FEEDS, fixed when the process starts
    bpc,               \* where the call is: idle, pulling
    feed_batch,        \* feed_batch of line 1296, as positions in NEWS_SOURCE_FEEDS
    pulled_feeds,      \* the feeds _fetch_rss_items was called for, in order
    used_feeds,        \* used_feeds of the call
    elapsed,           \* time.time() - start_ts, in seconds
    refresh_info,      \* the dict the last call returned, NoInfo before
    batches,           \* the batches _news_feed_batch has returned, in order
    \* ---- items stored in the index and read back ----
    stored_items,      \* the items handed to db_upsert_news_items, in order
    found,             \* what db_search_news_candidates returned last
    \* ---- the daily AI quota of one group (run_ai_chat) ----
    ai_daily_limit,    \* the group's setting ai_daily_limit
    group_ai_counts,   \* group_ai_counts[chat_id] of today
    qpc,               \* where each handler thread is in run_ai_chat
    group_used,        \* group_used of each call (line 4146)
    answered,          \* the AI replies sent to the group today
    ai_requests        \* the calls of run_ai_chat begun

scoreVars == <<items, ai_labels, scored, ai_web, web_reply, returned_web, blended>>

retrievalVars == <<fetched_rss, fetched_live, local_candidates, factcheck>>

reportVars ==
    <<openai_api_key, claim_text, run_result, pc, lines, report,
      refresh_calls, fetch_calls, index_writes, runs>>

channelVars == <<responses, raised>>

refreshVars ==
    <<clock, NEWS_LOCK, NEWS_LAST_REFRESH_TS, NEWS_FEED_CURSOR, db_latest_fetch,
      rpc, now_ts, refreshed, pulls, prunes>>

\* the variable groups of the services around the fact-check pipeline
indexVars ==
    <<news_index, DB_LOCK, upc, rows, upsert_log, skipped, upsert_calls>>

cacheVars ==
    <<AI_RESPONSE_CACHE, AI_CACHE_LOCK, cpc, cache_now, cache_key, cache_clock,
      cache_ticks>>

summaryVars ==
    <<sum_source, spc, sum_summary, sum_points, key_terms, show_keywords,
      sum_body>>

similarityVars == <<sim_left, sim_right, similarity>>

batchVars ==
    <<max_feeds, bpc, feed_batch, pulled_feeds, used_feeds, elapsed,
      refresh_info, batches>>

\* the variable groups of the helpers of the pipeline
storeVars == <<stored_items, found>>

quotaVars ==
    <<ai_daily_limit, group_ai_counts, qpc, group_used, answered, ai_requests>>

helperVars == <<similarityVars, batchVars, storeVars, quotaVars>>

serviceVars ==
    <<channelVars, refreshVars, indexVars, cacheVars, summaryVars, helperVars>>

vars == <<scoreVars, claim_neg, retrievalVars, reportVars, serviceVars>>

-----------------------------------------------------------------------------
(* Fixed-point arithmetic *)

Scale == 100 * 100

Min(a, b) == IF a <= b THEN a ELSE b

Max(a, b) == IF a >= b THEN a ELSE b

Abs(a) == IF a < 0 THEN -a ELSE a

\* round-to-nearest division of an integer (either sign) by a positive one
RoundDiv(a, b) == IF a >= 0 THEN (2 * a + b) \div (2 * b)
                            ELSE -((2 * (-a) + b) \div (2 * b))

\* product of two fixed-point numbers
Mul(a, b) == RoundDiv(a * b, Scale)

\* max(lo, min(hi, x))
Clamp(x, lo, hi) == Max(lo, Min(hi, x))

\* exp(-1/4) in fixed point
ExpQuarter == 7788

RECURSIVE PowQuarter(_)
\* exp(-n/4), by repeated squaring
PowQuarter(n) ==
    IF n = 0 THEN Scale
    ELSE IF n % 2 = 0
         THEN LET h == PowQuarter(n \div 2) IN Mul(h, h)
         ELSE Mul(PowQuarter(n - 1), ExpQuarter)

\* exp(-r) for 0 <= r < 1/4, by its Taylor polynomial of degree 4
ExpNegSmall(r) ==
    LET r2 == Mul(r, r)
        r3 == Mul(r2, r)
        r4 == Mul(r3, r)
    IN  Scale - r + RoundDiv(r2, 2) - RoundDiv(r3, 6) + RoundDiv(r4, 24)

\* math.exp(-z) for z >= 0
ExpNeg(z) == Mul(PowQuarter(z \div (Scale \div 4)), ExpNegSmall(z % (Scale \div 4)))

\* 1.0 / (1.0 + exp(-x))
Sigmoid(x) ==
    LET e == ExpNeg(Abs(x))
        p == RoundDiv(Scale * Scale, Scale + e)
    IN  IF x >= 0 THEN p ELSE Scale - p


-----------------------------------------------------------------------------
(* Program constants *)

\* the tier weights with "high" and "low" exchanged
TierWeightsExchanged == [high |-> 5500, medium |-> 7800, low |-> 10000]

\* SOURCE_TIER_WEIGHTS = {"high": 1.0, "medium": 0.78, "low": 0.55}
SOURCE_TIER_WEIGHTS == [high |-> 10000, medium |-> 7800, low |-> 5500]

\* the keys of SOURCE_TIER_WEIGHTS
Tiers == {"high", "medium", "low"}

\* the label weights with "related" weighing as much as "support"
RelatedWeighsAsSupport == [support |-> 10000, refute |-> -10000, related |-> 10000, irrelevant |-> 0]

\* FACT_LABEL_WEIGHTS = {"support": 1.0, "refute": -1.0, "related": 0.15, "irrelevant": 0.0}
FACT_LABEL_WEIGHTS == [support |-> 10000, refute |-> -10000, related |-> 1500, irrelevant |-> 0]

\* the keys of FACT_LABEL_WEIGHTS
Labels == {"support", "refute", "related", "irrelevant"}

\* SOURCE_TIER_NAME_HINTS restricted to the publisher names of the model:
\* "reuters" is hinted high, "tabnak" is hinted medium, any other name has no hint
SOURCE_TIER_NAME_HINTS(name) ==
    CASE name = "reuters" -> "high"
      [] name = "tabnak"  -> "medium"
      [] OTHER            -> ""

\* _infer_source_tier(source_name, fallback): a name hint wins over the fallback,
\* a fallback that is no tier becomes "medium"
InferSourceTier(source_name, fallback) ==
    IF SOURCE_TIER_NAME_HINTS(source_name) # ""
    THEN SOURCE_TIER_NAME_HINTS(source_name)
    ELSE IF fallback \in Tiers THEN fallback ELSE "medium"

\* the verdict strings of the program
VerdictUncertain == "uncertain"

VerdictTrue == "likely_true"

VerdictFalse == "likely_false"

VerdictReview == "needs_review"

\* time.time() of a scoring call, in days
NowDays == 1000

-----------------------------------------------------------------------------
(* _heuristic_label, _score_factcheck *)

\* _heuristic_label with "related" from relevance 0.14 on
HeuristicLabelRelatedFrom14(neg_claim, neg_item, relevance) ==
    IF relevance < 1400 THEN [label |-> "irrelevant", conf |-> 2800]
    ELSE IF relevance >= 5000
         THEN IF neg_claim # neg_item
              THEN [label |-> "refute", conf |-> 5600]
              ELSE [label |-> "support", conf |-> 5800]
    ELSE [label |-> "related", conf |-> 5000]

\* _heuristic_label(claim, item, relevance) -> (label, conf); the reason text
\* is not modelled.  neg_claim, neg_item: _contains_negation of the claim and
\* of the item's title and summary.
HeuristicLabel(neg_claim, neg_item, relevance) ==
    IF relevance < 1400 THEN [label |-> "irrelevant", conf |-> 2800]
    ELSE IF relevance >= 5000
         THEN IF neg_claim # neg_item
              THEN [label |-> "refute", conf |-> 5600]
              ELSE [label |-> "support", conf |-> 5800]
    ELSE IF relevance >= 2400 THEN [label |-> "related", conf |-> 5000]
    ELSE [label |-> "irrelevant", conf |-> 3300]

\* no entry for an index in ai_labels
NoAi == [label |-> "none", confidence |-> 0]

\* the label and confidence of one item (lines 1971-1979): the AI label when
\* there is one and it is a known label, the heuristic one otherwise
ItemLabel(neg_claim, item, ai) ==
    IF ai # NoAi /\ ai.label \in Labels
    THEN [label |-> ai.label, conf |-> ai.confidence]
    ELSE HeuristicLabel(neg_claim, item.neg, item.relevance)

\* freshness = 1.0 / (1.0 + age_days / 14.0), age_days >= 0 in days
Freshness(age_days) == RoundDiv(Scale * 14, 14 + age_days)

\* int(item.get("published_ts") or item.get("fetched_at") or now_ts)
ScoreTimestamp(item, now) ==
    IF item.published_ts # 0 THEN item.published_ts
    ELSE IF item.fetched_at # 0 THEN item.fetched_at ELSE now

\* the body of the scoring loop for one item (lines 1969-2012): the item with
\* its label, label_conf, tier, effect and freshness
ScoreItem(neg_claim, item, ai, now) ==
    LET lab == ItemLabel(neg_claim, item, ai)
        tier == InferSourceTier(item.source, item.source_tier)
        source_weight == SOURCE_TIER_WEIGHTS[tier]
        age_days == Max(0, now - ScoreTimestamp(item, now))
        freshness == Freshness(age_days)
        u1 == Mul(source_weight, 3500 + Mul(6500, Clamp(lab.conf, 0, Scale)))
        u2 == Mul(u1, 3000 + Mul(7000, Clamp(item.relevance, 0, Scale)))
        unit == Mul(u2, 5500 + Mul(4500, freshness))
        effect == Mul(FACT_LABEL_WEIGHTS[lab.label], unit)
    IN  [item |-> item, label |-> lab.label, label_conf |-> lab.conf,
         tier |-> tier, effect |-> effect, freshness |-> freshness]

\* the scored list before sorting: ScoreItem of every item, in order
ScoredList(neg_claim, its, ais, now) ==
    [i \in 1..Len(its) |-> ScoreItem(neg_claim, its[i], ais[i], now)]

RECURSIVE SumEffect(_, _)
\* net_score (absolute = FALSE) or total_strength (absolute = TRUE)
SumEffect(sc, absolute) ==
    IF sc = <<>> THEN 0
    ELSE (IF absolute THEN Abs(Head(sc).effect) ELSE Head(sc).effect)
         + SumEffect(Tail(sc), absolute)

\* support_count, refute_count, related_count
CountLabel(sc, label) == Cardinality({i \in 1..Len(sc) : sc[i].label = label})

\* the number of documents, whatever their publishers
SourceCountPerDocument(its) == Len(its)

\* len([s for s in seen_sources if s]): the distinct non-empty publishers
SourceCount(its) == Cardinality({its[i].source : i \in 1..Len(its)} \ {""})

RECURSIVE InsertByEffect(_, _)
\* insert e into a list sorted by |effect| descending, after its equals
InsertByEffect(sorted, e) ==
    IF sorted = <<>> THEN <<e>>
    ELSE IF Abs(Head(sorted).effect) >= Abs(e.effect)
         THEN <<Head(sorted)>> \o InsertByEffect(Tail(sorted), e)
         ELSE <<e>> \o sorted

RECURSIVE SortByEffect(_)
\* scored.sort(key=abs(effect), reverse=True): stable, descending
SortByEffect(sc) ==
    IF sc = <<>> THEN <<>>
    ELSE InsertByEffect(SortByEffect(SubSeq(sc, 1, Len(sc) - 1)), sc[Len(sc)])

\* the thresholding rule of lines 2024-2031 and 3423-3430
Verdict(truth_prob, confidence) ==
    IF confidence >= 4500
    THEN IF truth_prob >= 6500 THEN VerdictTrue
         ELSE IF truth_prob <= 3500 THEN VerdictFalse
         ELSE VerdictReview
    ELSE VerdictUncertain

\* score_reason (lines 2034-2047)
ScoreReason(source_count, support_count, refute_count, related_count, truth_prob, confidence) ==
    IF source_count = 0 \/ support_count + refute_count + related_count = 0
    THEN "no_evidence"
    ELSE IF support_count > 0 /\ refute_count > 0 THEN "conflicting_evidence"
    ELSE IF confidence < 3500 THEN "low_confidence"
    ELSE IF Abs(truth_prob - 5000) <= 800 THEN "near_balanced"
    ELSE "scored"

\* the result of _score_factcheck on an empty list (lines 1944-1957)
NoEvidenceResult ==
    [verdict |-> VerdictUncertain, truth_prob |-> 5000, fake_prob |-> 5000,
     confidence |-> 1500, evidence |-> <<>>, support_count |-> 0,
     refute_count |-> 0, related_count |-> 0, source_count |-> 0,
     score_reason |-> "no_evidence", score_why |-> <<"no_evidence_why">>]

\* TruthProb without the clamp of line 2017
TruthProbUnclamped(net_score, coverage) ==
    Mul(8800, Sigmoid(RoundDiv(27 * net_score, 10))) + Mul(1200, coverage)

\* truth_prob of lines 2014-2017
TruthProb(net_score, coverage) ==
    Clamp(Mul(8800, Sigmoid(RoundDiv(27 * net_score, 10))) + Mul(1200, coverage),
          300, 9700)

\* fake_prob of line 2018
FakeProb(truth_prob) == Scale - truth_prob

\* confidence of lines 2019-2022
Confidence(total_strength, n, coverage) ==
    Clamp(2300 + Min(4300, RoundDiv(total_strength, Max(1, n)))
               + Mul(2000, coverage)
               + Mul(1200, Min(Scale, RoundDiv(Scale * n, 8))),
          1000, 9700)

\* score_why of lines 2035-2047: one text per reason
ScoreWhy(reason) == <<reason>>

\* _score_factcheck past its empty-list return (lines 1959-2060)
ScoreNonEmpty(neg_claim, its, ais, now) ==
    LET sc == ScoredList(neg_claim, its, ais, now)
        net_score == SumEffect(sc, FALSE)
        total_strength == SumEffect(sc, TRUE)
        support_count == CountLabel(sc, "support")
        refute_count == CountLabel(sc, "refute")
        related_count == CountLabel(sc, "related")
        source_count == SourceCount(its)
        coverage == Min(Scale, RoundDiv(Scale * source_count, 6))
        truth_prob == TruthProb(net_score, coverage)
        confidence == Confidence(total_strength, Len(its), coverage)
        reason == ScoreReason(source_count, support_count, refute_count,
                              related_count, truth_prob, confidence)
    IN  [verdict |-> Verdict(truth_prob, confidence),
         truth_prob |-> truth_prob,
         fake_prob |-> FakeProb(truth_prob),
         confidence |-> confidence,
         evidence |-> SortByEffect(sc),
         support_count |-> support_count,
         refute_count |-> refute_count,
         related_count |-> related_count,
         source_count |-> source_count,
         score_reason |-> reason,
         score_why |-> ScoreWhy(reason)]

\* ScoreFactcheck without the empty-list return of lines 1944-1957
ScoreFactcheckNoEarlyReturn(neg_claim, its, ais, now) ==
    ScoreNonEmpty(neg_claim, its, ais, now)

\* _score_factcheck(claim, items, ai_labels)
ScoreFactcheck(neg_claim, its, ais, now) ==
    IF its = <<>> THEN NoEvidenceResult
    ELSE ScoreNonEmpty(neg_claim, its, ais, now)

-----------------------------------------------------------------------------
(* _blend_fact_scores *)

\* an empty ai_web dict
NoAiWeb == [truth_prob |-> 0, confidence |-> 0, sources |-> 0, why |-> FALSE]

\* a blend weight of 1: the AI's truth_prob replaces the scorer's
BlendWeightFull(ai_conf) == Scale

\* blend_weight of line 3415
BlendWeight(ai_conf) == 2200 + Mul(2800, Clamp(ai_conf, 0, Scale))

\* merged_truth of lines 3416-3418
MergedTruth(base_truth, ai_truth, ai_conf) ==
    LET blend_weight == BlendWeight(ai_conf)
    IN  Clamp(Mul(Scale - blend_weight, base_truth) + Mul(blend_weight, ai_truth),
              200, 9800)

\* MergedConf as the weighted mean alone, without the max of line 3420
MergedConfWeighted(base_conf, ai_conf) ==
    Clamp(Mul(7500, base_conf) + Mul(2500, ai_conf), 1000, 9800)

\* merged_conf of lines 3420-3421
MergedConf(base_conf, ai_conf) ==
    Clamp(Max(base_conf, Mul(7500, base_conf) + Mul(2500, ai_conf)), 1000, 9800)

\* MergedVerdict thresholding the truth probability alone
MergedVerdictTruthOnly(merged_truth, merged_conf) == Verdict(merged_truth, Scale)

\* the verdict the blender stores (lines 3423-3436)
MergedVerdict(merged_truth, merged_conf) == Verdict(merged_truth, merged_conf)

\* BlendFactScores leaving out["fake_prob"] as the internal result had it
BlendKeepsFakeProb(internal, aiw) ==
    IF aiw = NoAiWeb \/ aiw.sources < 2 THEN internal
    ELSE
    LET merged_truth == MergedTruth(internal.truth_prob, aiw.truth_prob, aiw.confidence)
        merged_conf == MergedConf(internal.confidence, aiw.confidence)
    IN  [internal EXCEPT
           !.truth_prob = merged_truth,
           !.confidence = merged_conf,
           !.verdict = MergedVerdict(merged_truth, merged_conf),
           !.score_why = IF aiw.why THEN Append(@, "ai_why") ELSE @,
           !.score_reason = "blended_with_ai_web"]

\* _blend_fact_scores(internal, ai_web); ai_web.sources is the number of
\* cited sources, ai_web.why whether the AI gave an explanation
BlendFactScores(internal, aiw) ==
    IF aiw = NoAiWeb \/ aiw.sources < 2 THEN internal
    ELSE
    LET merged_truth == MergedTruth(internal.truth_prob, aiw.truth_prob, aiw.confidence)
        merged_conf == MergedConf(internal.confidence, aiw.confidence)
    IN  [internal EXCEPT
           !.truth_prob = merged_truth,
           !.fake_prob = Scale - merged_truth,
           !.confidence = merged_conf,
           !.verdict = MergedVerdict(merged_truth, merged_conf),
           !.score_why = IF aiw.why THEN Append(@, "ai_why") ELSE @,
           !.score_reason = "blended_with_ai_web"]

-----------------------------------------------------------------------------
(* The JSON replies of the AI calls: _extract_json_payload,
   _ai_factcheck_reasoning and _ai_factcheck_web_verdict *)

\* FACTCHECK_AI_WEBSEARCH_MAX_SOURCES (its default)
FACTCHECK_AI_WEBSEARCH_MAX_SOURCES == 6

\* an empty ai_reasoning dict
NoReasoning == [overall |-> 0, why |-> 0, missing |-> 0, parts |-> <<>>]

\* an empty ai_web dict, as the result carries it
NoWebVerdict == [verdict |-> "none"]

\* no call of the AI yet
NotAsked == [kind |-> "none"]

\* a call that failed, or answered without text
NoReply == [kind |-> "failed"]

\* _extract_json_payload with the object pattern of line 1744 tried first
ExtractJsonPayloadObjectFirst(arrays) == "object"

\* _extract_json_payload on the text of a JSON object whose arrays have the
\* lengths given: re.search(r"(\[[\s\S]+\])") of line 1741 is tried first and
\* matches as soon as a "[" is followed, two or more characters later, by a
\* "]", that is when an array has an element or the object has two arrays;
\* the payload is then the text from the first "[" to the last "]"
ExtractJsonPayload(arrays) ==
    IF Len(arrays) >= 2 \/ \E i \in 1..Len(arrays) : arrays[i] > 0
    THEN "array" ELSE "object"

\* json.loads(payload) gives a dict (lines 1880-1885, 3330-3335): a payload
\* that starts with "[" gives a list or does not parse
LoadsDict(arrays) == ExtractJsonPayload(arrays) = "object"

\* the lengths of the arrays in the text of a reasoning reply: "parts" when
\* the key is there, and the "evidence" array of each part
ReasoningArrays(reply) ==
    IF reply.has_parts
    THEN <<Len(reply.parts)>> \o [i \in 1..Len(reply.parts) |-> reply.parts[i].evidence]
    ELSE <<>>

\* the number of cited indexes a part keeps (lines 1892-1899): the model
\* cites the first indexes, those above len(evidence) are dropped
KeptIndexes(cited, evidence_count) == Min(cited, evidence_count)

\* _ai_factcheck_reasoning (lines 1877-1917) on the reply of the AI
AiFactcheckReasoning(reply, evidence_count) ==
    IF reply = NoReply \/ ~LoadsDict(ReasoningArrays(reply)) THEN NoReasoning
    ELSE [overall |-> Min(260, reply.overall),
          why |-> Min(360, reply.why),
          missing |-> Min(320, reply.missing),
          parts |-> [i \in 1..Min(6, Len(reply.parts)) |->
                       [claim_part |-> Min(220, reply.parts[i].claim_part),
                        status |-> reply.parts[i].status,
                        why |-> Min(260, reply.parts[i].why),
                        evidence |-> KeptIndexes(reply.parts[i].evidence,
                                                 evidence_count)]]]

\* a part of a reasoning reply, its texts over the cuts
ReplyPart ==
    [claim_part |-> 240, status |-> "uncertain", why |-> 300, evidence |-> 2]

\* the reasoning replies explored: no reply; an object without "parts"; an
\* object with an empty "parts" and texts over the cuts; objects with one
\* part and with seven
ReasoningReplies ==
    {NoReply,
     [kind |-> "object", overall |-> 40, why |-> 80, missing |-> 0,
      has_parts |-> FALSE, parts |-> <<>>],
     [kind |-> "object", overall |-> 300, why |-> 400, missing |-> 350,
      has_parts |-> TRUE, parts |-> <<>>],
     [kind |-> "object", overall |-> 40, why |-> 80, missing |-> 20,
      has_parts |-> TRUE, parts |-> <<ReplyPart>>],
     [kind |-> "object", overall |-> 300, why |-> 400, missing |-> 350,
      has_parts |-> TRUE, parts |-> [i \in 1..7 |-> ReplyPart]]}

\* eight links of 300 characters each
LongUrls ==
    <<"https://l1", "https://l2", "https://l3", "https://l4", "https://l5",
      "https://l6", "https://l7", "https://l8">>

\* _normalize_fact_url (lines 3242-3250): a "www." link gets its scheme, a
\* link that is not http(s) is dropped
NormalizeFactUrl(url) ==
    CASE url = "www.a" -> "https://a"
      [] url \in {"https://a", "https://b"} -> url
      [] \E i \in 1..Len(LongUrls) : url = LongUrls[i] -> url
      [] OTHER -> ""

\* len of a normalised link
FactUrlChars(link) ==
    IF link = "" THEN 0
    ELSE IF \E i \in 1..Len(LongUrls) : link = LongUrls[i] THEN 300 ELSE 9

\* the source dict of lines 3367-3376, with the lengths of its texts
CitedSource(item) ==
    [stance |-> item.stance, title |-> Min(170, item.title),
     publisher |-> IF item.publisher > 0 THEN Min(70, item.publisher) ELSE 1,
     date |-> Min(20, item.date), link |-> NormalizeFactUrl(item.url),
     note |-> Min(180, item.note)]

RECURSIVE CitedSources(_)
\* the sources list of lines 3354-3376: an item without a link or without
\* a title is passed over
CitedSources(raw_sources) ==
    IF raw_sources = <<>> THEN <<>>
    ELSE LET src == CitedSource(Head(raw_sources))
         IN  (IF src.link = "" \/ src.title = 0 THEN <<>> ELSE <<src>>)
             \o CitedSources(Tail(raw_sources))

RECURSIVE FinalSources(_, _, _)
\* final_sources of lines 3378-3388: the first source of each link, up to
\* the cap
FinalSources(sources, seen_links, kept) ==
    IF sources = <<>> \/ kept >= FACTCHECK_AI_WEBSEARCH_MAX_SOURCES THEN <<>>
    ELSE IF Head(sources).link \in seen_links
         THEN FinalSources(Tail(sources), seen_links, kept)
         ELSE <<Head(sources)>>
              \o FinalSources(Tail(sources), seen_links \cup {Head(sources).link},
                              kept + 1)

\* the lengths of the arrays in the text of a web reply
WebArrays(reply) ==
    (IF reply.has_checks THEN <<Len(reply.checks)>> ELSE <<>>)
    \o (IF reply.has_sources THEN <<Len(reply.sources)>> ELSE <<>>)

\* the test of line 3390
TooFewSources(final_sources) == Len(final_sources) < 2

\* the dict returned at lines 3392-3400, given final_sources
WebVerdictOf(reply, final_sources) ==
    IF TooFewSources(final_sources) THEN NoWebVerdict
    ELSE [verdict |-> reply.verdict,
          truth_prob |-> 100 * Clamp(reply.truth_prob, 1, 99),
          confidence |-> 100 * Clamp(reply.confidence, 1, 99),
          why |-> Min(420, reply.why),
          checks |-> [i \in 1..Min(6, Len(reply.checks)) |->
                        Min(180, reply.checks[i])],
          sources |-> [i \in 1..Len(final_sources) |->
                         [stance |-> final_sources[i].stance,
                          title |-> final_sources[i].title,
                          publisher |-> final_sources[i].publisher,
                          date |-> final_sources[i].date,
                          url |-> FactUrlChars(final_sources[i].link),
                          note |-> final_sources[i].note]]]

\* lines 3347-3400: the verdict built from the parsed reply
WebVerdictFromDict(reply) ==
    WebVerdictOf(reply,
        FinalSources(CitedSources(SubSeq(reply.sources, 1,
            Min(Len(reply.sources), FACTCHECK_AI_WEBSEARCH_MAX_SOURCES + 2))),
            {}, 0))

\* _ai_factcheck_web_verdict (lines 3312-3400) on the reply of the AI
AiFactcheckWebVerdict(reply) ==
    IF reply = NoReply \/ ~LoadsDict(WebArrays(reply)) THEN NoWebVerdict
    ELSE WebVerdictFromDict(reply)

\* the ai_web dict as _blend_fact_scores reads it
BlendInput(web) ==
    IF web = NoWebVerdict THEN NoAiWeb
    ELSE [truth_prob |-> web.truth_prob, confidence |-> web.confidence,
          sources |-> Len(web.sources), why |-> web.why > 0]

\* a source the AI cites: its link and the length of its title
Cited(url, title) ==
    [url |-> url, title |-> title, publisher |-> 8, stance |-> "support",
     date |-> 10, note |-> 0]

\* the "sources" arrays explored: none, one source, the same page under two
\* spellings, a source with a link that is not http, a source without a
\* title, two sources, three
SourceLists ==
    {<<>>,
     <<Cited("https://a", 40)>>,
     <<Cited("https://a", 40), Cited("www.a", 30)>>,
     <<Cited("https://a", 40), Cited("ftp://c", 40)>>,
     <<Cited("https://a", 40), Cited("https://b", 0)>>,
     <<Cited("https://a", 40), Cited("https://b", 40)>>,
     <<Cited("https://a", 40), Cited("www.a", 30), Cited("https://b", 40)>>}

\* a reply with every text over its cut, seven checks and eight sources
LongWebReply ==
    [kind |-> "object", verdict |-> "likely_false", truth_prob |-> 0,
     confidence |-> 99, why |-> 450, has_checks |-> TRUE,
     checks |-> [i \in 1..7 |-> 200], has_sources |-> TRUE,
     sources |-> [i \in 1..Len(LongUrls) |->
                    [url |-> LongUrls[i], title |-> 200, publisher |-> 80,
                     stance |-> "refute", date |-> 25, note |-> 200]]]

\* a web reply with short texts: whether it has a "checks" array and what
\* the array holds, and the same for "sources"
WebReply(has_checks, checks, has_sources, sources) ==
    [kind |-> "object", verdict |-> "likely_true", truth_prob |-> 90,
     confidence |-> 120, why |-> 60, has_checks |-> has_checks,
     checks |-> checks, has_sources |-> has_sources, sources |-> sources]

\* the web replies explored: no reply, the long reply, an object without a
\* "sources" key, and objects with "sources" and no "checks", an empty
\* "checks" and one check
AiWebReplies ==
    {NoReply, LongWebReply, WebReply(FALSE, <<>>, FALSE, <<>>)}
    \cup {WebReply(FALSE, <<>>, TRUE, srcs) : srcs \in SourceLists}
    \cup {WebReply(TRUE, <<>>, TRUE, srcs) : srcs \in SourceLists}
    \cup {WebReply(TRUE, <<40>>, TRUE, srcs) : srcs \in SourceLists}

-----------------------------------------------------------------------------
(* Texts and links of the evidence items *)

\* _clean_html_text on the texts of the model: a text that holds markup only
\* ("<b>", what html.unescape leaves of a feed's "&lt;b&gt;") is emptied,
\* plain text is returned as it is
CleanHtmlText(text) == IF text = "<b>" THEN "" ELSE text

\* len(str) of the texts of the model
TextLen(text) ==
    CASE text = ""      -> 0
      [] text = "xa"    -> 2
      [] text = "xb"    -> 2
      [] text = "<b>"   -> 3
      [] text = "xlong" -> 5

\* normalize_text(link): strip and lower-case
NormalizeText(text) == IF text = "U1" THEN "u1" ELSE text

\* _canonical_news_link on a link a fetcher has canonicalised already
CanonicalNewsLink(link) == link

\* _contains_negation(title + " " + summary): "xb" words the story as a denial
ContainsNegation(title, summary) == title = "xb" \/ summary = "xb"

\* _claim_relevance(title + " " + summary) for the claim of the model: the
\* claim matches the stories "xa" and "xb" closely, "xlong" loosely, and
\* an empty text not at all
ClaimRelevance(title, summary) ==
    IF title \in {"xa", "xb"} \/ summary \in {"xa", "xb"} THEN 6000
    ELSE IF title = "xlong" \/ summary = "xlong" THEN 3000
    ELSE 0

-----------------------------------------------------------------------------
(* _news_item_timestamp, _merge_news_items *)

\* int(item.get("published_ts") or item.get("fetched_at") or 0)
NewsItemTimestamp(item) ==
    IF item.published_ts # 0 THEN item.published_ts ELSE item.fetched_at

\* the normalisation of one raw item (lines 1560-1575); the items of the
\* model carry a source, a source_tier and a fetched_at already
NormalizeItem(raw) ==
    [raw EXCEPT !.link = CanonicalNewsLink(raw.link),
                !.title = CleanHtmlText(raw.title),
                !.summary = CleanHtmlText(raw.summary)]

\* the dedup key (lines 1577, 2178): the normalised link, or source|title
NewsKey(item) ==
    IF NormalizeText(item.link) # ""
    THEN <<NormalizeText(item.link)>>
    ELSE <<NormalizeText(item.source), NormalizeText(item.title)>>

\* whether the merge keeps a normalised item (lines 1563-1564: it skips an
\* item only when link and title are both empty)
MergeKeeps(item) == ~(item.link = "" /\ item.title = "")

\* len(title) + len(summary)
ItemTextLen(item) == TextLen(item.title) + TextLen(item.summary)

\* MergeReplaces comparing the timestamps alone
MergeReplacesByTimestampOnly(existing, item) ==
    NewsItemTimestamp(item) > NewsItemTimestamp(existing)

\* (new_ts, new_text_len) > (old_ts, old_text_len), line 1592
MergeReplaces(existing, item) ==
    \/ NewsItemTimestamp(item) > NewsItemTimestamp(existing)
    \/ /\ NewsItemTimestamp(item) = NewsItemTimestamp(existing)
       /\ ItemTextLen(item) > ItemTextLen(existing)

\* one turn of the merge loop (lines 1559-1593)
MergeStep(merged, raw) ==
    LET item == NormalizeItem(raw)
        hits == {i \in 1..Len(merged) : NewsKey(merged[i]) = NewsKey(item)}
    IN  IF ~MergeKeeps(item) THEN merged
        ELSE IF hits = {} THEN Append(merged, item)
        ELSE LET idx == CHOOSE i \in hits : TRUE
             IN  IF MergeReplaces(merged[idx], item)
                 THEN [merged EXCEPT ![idx] = item]
                 ELSE merged

RECURSIVE MergeNewsItems(_)
\* _merge_news_items(items)
MergeNewsItems(its) ==
    IF its = <<>> THEN <<>>
    ELSE MergeStep(MergeNewsItems(SubSeq(its, 1, Len(its) - 1)), its[Len(its)])

-----------------------------------------------------------------------------
(* run_news_factcheck: candidate selection, ranking, scoring *)

\* FACTCHECK_RECENT_DAYS
FACTCHECK_RECENT_DAYS == 120

\* mode_evidence_limit of mode "news" (line 2129)
ModeEvidenceLimit == 10

\* need_floor = max(8, mode_evidence_limit * 2), line 2200
NeedFloor == Max(8, ModeEvidenceLimit * 2)

\* age_days of lines 2188 and 2213
AgeDays(item, now) ==
    IF NewsItemTimestamp(item) > 0 THEN Max(0, now - NewsItemTimestamp(item)) ELSE 0

\* the item as the strict pass annotates it (lines 2193-2196)
StrictRanked(item, now) ==
    LET relevance == ClaimRelevance(item.title, item.summary)
        freshness == RoundDiv(Scale * 14, 14 + AgeDays(item, now))
    IN  [source |-> item.source, source_tier |-> item.source_tier,
         link |-> item.link, title |-> item.title, summary |-> item.summary,
         published_ts |-> item.published_ts, fetched_at |-> item.fetched_at,
         neg |-> ContainsNegation(item.title, item.summary),
         relevance |-> relevance,
         rank_score |-> Mul(8200, relevance) + Mul(1800, freshness)]

\* the item as the relaxed pass annotates it (lines 2216-2219)
RelaxedRanked(item, now) ==
    LET relevance == ClaimRelevance(item.title, item.summary)
        freshness == RoundDiv(Scale * 18, 18 + AgeDays(item, now))
    IN  [StrictRanked(item, now) EXCEPT
           !.rank_score = Mul(8600, relevance) + Mul(1400, freshness)]

\* whether the strict pass admits an item (lines 2185-2191)
StrictAdmits(item, now) ==
    /\ ClaimRelevance(item.title, item.summary) >= 1200
    /\ ~(/\ NewsItemTimestamp(item) > 0
         /\ NewsItemTimestamp(item) < now - FACTCHECK_RECENT_DAYS
         /\ ClaimRelevance(item.title, item.summary) < 3300)

\* whether the relaxed pass admits an item the strict pass left out (line 2210)
RelaxedAdmits(item) == ClaimRelevance(item.title, item.summary) >= 1000

RECURSIVE StrictPass(_, _)
\* the strict loop over candidate_pool (lines 2177-2197); the keys of the pool
\* are distinct, so the seen set rejects nothing
StrictPass(pool, now) ==
    IF pool = <<>> THEN <<>>
    ELSE LET rest == StrictPass(SubSeq(pool, 1, Len(pool) - 1), now)
             item == pool[Len(pool)]
         IN  IF StrictAdmits(item, now) THEN Append(rest, StrictRanked(item, now))
             ELSE rest

RECURSIVE RelaxedPass(_, _)
\* the relaxed loop (lines 2202-2222) over the items the strict pass left out;
\* its break at local_limit (180 items or more) is out of reach of the pools
\* explored
RelaxedPass(pool, now) ==
    IF pool = <<>> THEN <<>>
    ELSE LET rest == RelaxedPass(SubSeq(pool, 1, Len(pool) - 1), now)
             item == pool[Len(pool)]
         IN  IF ~StrictAdmits(item, now) /\ RelaxedAdmits(item)
             THEN Append(rest, RelaxedRanked(item, now))
             ELSE rest

\* the more recent item first, whatever the rank_score
RanksBeforeByRecency(a, b) == NewsItemTimestamp(a) > NewsItemTimestamp(b)

\* the sort key of lines 2224-2230 compared: a ranks strictly before b
RanksBefore(a, b) ==
    \/ a.rank_score > b.rank_score
    \/ /\ a.rank_score = b.rank_score
       /\ NewsItemTimestamp(a) > NewsItemTimestamp(b)

RECURSIVE InsertByRank(_, _)
\* insert e into a list sorted by the rank key descending, after its equals
InsertByRank(sorted, e) ==
    IF sorted = <<>> THEN <<e>>
    ELSE IF RanksBefore(e, Head(sorted))
         THEN <<e>> \o sorted
         ELSE <<Head(sorted)>> \o InsertByRank(Tail(sorted), e)

RECURSIVE SortByRank(_)
\* ranked.sort(key=(rank_score, timestamp), reverse=True): stable
SortByRank(r) ==
    IF r = <<>> THEN <<>>
    ELSE InsertByRank(SortByRank(SubSeq(r, 1, Len(r) - 1)), r[Len(r)])

\* ranked of lines 2175-2230
Ranked(pool, now) ==
    LET strict == StrictPass(pool, now)
    IN  SortByRank(IF Len(strict) < NeedFloor
                   THEN strict \o RelaxedPass(pool, now)
                   ELSE strict)

\* selected[:mode_evidence_limit] of lines 2231-2233
Selected(ranked) == SubSeq(ranked, 1, Min(Len(ranked), ModeEvidenceLimit))

\* the part of run_news_factcheck after the fetches (lines 2149-2233), in
\* mode "news" with no AI: merge, select, rank, score
Factcheck(rss, live, local, neg_claim, now) ==
    LET fetched_combined == MergeNewsItems(rss \o live)
        candidate_pool == MergeNewsItems(fetched_combined \o local)
        ranked == Ranked(candidate_pool, now)
        sel == Selected(ranked)
    IN  [fetched_combined |-> fetched_combined,
         candidate_pool |-> candidate_pool,
         selected |-> sel,
         scored |-> ScoreFactcheck(neg_claim, sel,
                                   [i \in 1..Len(sel) |-> NoAi], now)]

-----------------------------------------------------------------------------
(* The scorer and the blender as a state machine: an evidence list is built *)
(* item by item, scored, and the result blended with an AI web verdict.     *)

\* longest evidence list explored
MaxItems == 2

\* no result yet
NoResult == [verdict |-> "none"]

\* the publishers explored, each with the source_tier field of its items:
\* no publisher name, a name hinted high, and an unhinted name on a medium
\* and on a low feed
PublisherInputs ==
    {<<"", "low">>, <<"reuters", "low">>, <<"blog", "medium">>, <<"blog", "low">>}

\* the evidence items explored: publisher and tier field, relevance to the
\* claim, publication day (today, or 400 days ago)
EvidenceInputs ==
    {[source |-> p[1], source_tier |-> p[2], relevance |-> r,
      published_ts |-> t, fetched_at |-> NowDays, neg |-> FALSE] :
        p \in PublisherInputs, r \in {1200, 3000, 10000},
        t \in {NowDays, NowDays - 400}}

\* the ai_labels entries explored: none, or a label with its confidence
AiLabelInputs ==
    {NoAi, [label |-> "refute", confidence |-> 10000]}

\* the AI web verdicts explored: truth_prob and confidence as
\* _ai_factcheck_web_verdict clamps them (1..99 percent), 1 or 2 sources
AiWebInputs ==
    [truth_prob : {100, 9900}, confidence : {100, 9900}, sources : {1, 2},
     why : {TRUE}]

\* no run of run_news_factcheck yet
NoRun == [scored |-> NoResult]

\* the retrieval variables at rest
RetrievalIdle ==
    /\ fetched_rss = <<>>
    /\ fetched_live = <<>>
    /\ local_candidates = <<>>
    /\ factcheck = NoRun

\* the scorer variables at rest
ScoreIdle ==
    /\ items = <<>>
    /\ ai_labels = <<>>
    /\ scored = NoResult
    /\ ai_web = NoAiWeb
    /\ web_reply = NotAsked
    /\ returned_web = NoWebVerdict
    /\ blended = NoResult

\* no call of run_news_factcheck yet
NoCall == [ok |-> "none"]

\* the variables of the command state machine at rest
ReportIdle ==
    /\ openai_api_key = FALSE
    /\ claim_text = ""
    /\ run_result = NoCall
    /\ pc = "idle"
    /\ lines = <<>>
    /\ report = <<>>
    /\ refresh_calls = 0
    /\ fetch_calls = 0
    /\ index_writes = 0
    /\ runs = 0

\* no call has answered and nothing was raised
ChannelIdle ==
    /\ responses = <<>>
    /\ raised = FALSE

\* the threads that call refresh_news_index: scheduler_loop (line 5107) and
\* the handler threads that run run_news_factcheck (line 2130)
Threads == {"scheduler", "handler1", "handler2"}

\* no thread is in refresh_news_index and nothing was refreshed yet
RefreshIdle ==
    /\ clock = 1
    /\ NEWS_LOCK = "none"
    /\ NEWS_LAST_REFRESH_TS = 0
    /\ NEWS_FEED_CURSOR = 0
    /\ db_latest_fetch = 0
    /\ rpc = [t \in Threads |-> "idle"]
    /\ now_ts = [t \in Threads |-> 0]
    /\ refreshed = [t \in Threads |-> "none"]
    /\ pulls = <<>>
    /\ prunes = 0

\* the threads that call db_upsert_news_items at the same time: the
\* scheduler inside a refresh (line 1302) and a handler (line 2151)
UpsertThreads == {"scheduler", "handler1"}

\* an empty index and no thread in db_upsert_news_items
IndexIdle ==
    /\ news_index = <<>>
    /\ DB_LOCK = "none"
    /\ upc = [t \in UpsertThreads |-> "idle"]
    /\ rows = [t \in UpsertThreads |-> <<>>]
    /\ upsert_log = <<>>
    /\ skipped = 0
    /\ upsert_calls = 0

\* the threads that reach the AI cache at the same time
CacheThreads == {"handler1", "handler2"}

\* an empty cache and no thread in _ai_cache_get or _ai_cache_put
CacheIdle ==
    /\ AI_RESPONSE_CACHE = <<>>
    /\ AI_CACHE_LOCK = "none"
    /\ cpc = [t \in CacheThreads |-> "idle"]
    /\ cache_now = [t \in CacheThreads |-> 0]
    /\ cache_key = [t \in CacheThreads |-> "none"]
    /\ cache_clock = 1
    /\ cache_ticks = 0

\* no text handed to the summarizer
NoText == [sentences |-> <<>>]

\* nothing returned yet
NoBody == [path |-> "none", chars |-> 0]

\* the summarizer before a call
SummaryIdle ==
    /\ sum_source = NoText
    /\ spc = "idle"
    /\ sum_summary = <<>>
    /\ sum_points = <<>>
    /\ key_terms = <<>>
    /\ show_keywords = FALSE
    /\ sum_body = NoBody

\* no value returned yet
NoValue == 0 - 1

\* _text_similarity before a call
SimilarityIdle ==
    /\ sim_left = <<>>
    /\ sim_right = <<>>
    /\ similarity = NoValue

\* nothing returned yet
NoInfo == [refreshed |-> "none"]

\* no call is in the pull loop of refresh_news_index; the part of the state
\* that does not depend on the setting NEWS_REFRESH_MAX_FEEDS
BatchIdle ==
    /\ bpc = "idle"
    /\ feed_batch = <<>>
    /\ pulled_feeds = <<>>
    /\ used_feeds = 0
    /\ elapsed = 0
    /\ refresh_info = NoInfo
    /\ batches = <<>>

\* the helpers at rest, with NEWS_REFRESH_MAX_FEEDS at its default
\* nothing stored through the round trip and nothing read back
StoreIdle == stored_items = <<>> /\ found = <<>>

\* the worker threads telebot runs the message handlers on (line 40:
\* TeleBot is threaded, with two workers, unless told otherwise)
ChatThreads == {"worker1", "worker2"}

\* no call of run_ai_chat yet today; the part of the state that does not
\* depend on the group's limit
QuotaIdle ==
    /\ group_ai_counts = 0
    /\ qpc = [t \in ChatThreads |-> "idle"]
    /\ group_used = [t \in ChatThreads |-> 0]
    /\ answered = 0
    /\ ai_requests = 0

HelperIdle ==
    /\ SimilarityIdle
    /\ BatchIdle /\ max_feeds = 85
    /\ StoreIdle
    /\ QuotaIdle /\ ai_daily_limit = 50

\* the service variables at rest
ServiceIdle ==
    /\ ChannelIdle /\ RefreshIdle /\ IndexIdle /\ CacheIdle /\ SummaryIdle
    /\ HelperIdle

\* the variables the scorer's state machine leaves alone
NotScoreVars == <<retrievalVars, reportVars, serviceVars>>

\* the variables the retrieval state machine leaves alone
NotRetrievalVars == <<scoreVars, claim_neg, reportVars, serviceVars>>

InitScore ==
    /\ RetrievalIdle
    /\ ReportIdle
    /\ ServiceIdle
    /\ items = <<>>
    /\ ai_labels = <<>>
    /\ scored = NoResult
    /\ ai_web = NoAiWeb
    /\ web_reply = NotAsked
    /\ returned_web = NoWebVerdict
    /\ blended = NoResult
    /\ claim_neg \in BOOLEAN

\* the caller appends one more candidate (and its AI label, if any) to the
\* list it will hand to _score_factcheck
AddEvidence ==
    /\ scored = NoResult
    /\ Len(items) < MaxItems
    /\ \E item \in EvidenceInputs, ai \in AiLabelInputs :
         /\ items' = Append(items, item)
         /\ ai_labels' = Append(ai_labels, ai)
    /\ UNCHANGED <<scored, ai_web, web_reply, returned_web, blended, claim_neg,
                   NotScoreVars>>

\* scored = _score_factcheck(claim, items, ai_labels)
DoScore ==
    /\ scored = NoResult
    /\ scored' = ScoreFactcheck(claim_neg, items, ai_labels, NowDays)
    /\ UNCHANGED <<items, ai_labels, ai_web, web_reply, returned_web, blended,
                   claim_neg, NotScoreVars>>

\* scored = _blend_fact_scores(scored, ai_web)
DoBlend ==
    /\ scored # NoResult
    /\ blended = NoResult
    /\ \E aiw \in AiWebInputs :
         /\ ai_web' = aiw
         /\ blended' = BlendFactScores(scored, aiw)
    /\ UNCHANGED <<items, ai_labels, scored, web_reply, returned_web, claim_neg,
                   NotScoreVars>>

\* lines 2236-2238: ai_web = _ai_factcheck_web_verdict(...), and scored =
\* _blend_fact_scores(scored, ai_web) if ai_web is not empty
DoWebVerdict ==
    /\ scored # NoResult
    /\ blended = NoResult
    /\ \E reply \in AiWebReplies :
         LET web == AiFactcheckWebVerdict(reply)
         IN  /\ web_reply' = reply
             /\ returned_web' = web
             /\ ai_web' = BlendInput(web)
             /\ blended' = IF web = NoWebVerdict THEN scored
                           ELSE BlendFactScores(scored, BlendInput(web))
    /\ UNCHANGED <<items, ai_labels, scored, claim_neg, NotScoreVars>>

NextScore == AddEvidence \/ DoScore \/ DoBlend \/ DoWebVerdict

SpecScore == InitScore /\ [][NextScore]_vars

-----------------------------------------------------------------------------
(* Retrieval and merge as a state machine: items arrive from the query    *)
(* feeds, the live search and the local index, then the run merges, ranks *)
(* and scores them.                                                        *)

\* most items that arrive in one run
MaxArrivals == 2

\* the publisher of a link: the feed or the domain it came from
SourceOfLink(link) == IF NormalizeText(link) = "u1" THEN "reuters" ELSE "blog"

\* the title and summary pairs explored: two wordings of the story of equal
\* length (one a denial), a longer loosely related title, and a title that
\* is markup only over a summary that tells the story
TextInputs == {<<"xa", "">>, <<"xb", "">>, <<"xlong", "">>, <<"<b>", "xa">>}

\* the raw items explored, as the fetchers and the index hand them over:
\* link, title and source non-empty, the link canonical, published_ts
\* absent (0) or 400 days ago, fetched today
RawInputs ==
    {[link |-> l, title |-> t[1], summary |-> t[2],
      source |-> SourceOfLink(l),
      source_tier |-> InferSourceTier(SourceOfLink(l), "medium"),
      published_ts |-> ts, fetched_at |-> NowDays] :
        l \in {"u1", "U1", "u2"}, t \in TextInputs, ts \in {0, NowDays - 400}}

\* the items that have arrived, in the order the run concatenates them
Arrivals == fetched_rss \o fetched_live \o local_candidates

InitRetrieval ==
    /\ ScoreIdle
    /\ ReportIdle
    /\ ServiceIdle
    /\ claim_neg = FALSE
    /\ RetrievalIdle

\* _fetch_query_news_items returns one more item
FetchRss ==
    /\ factcheck = NoRun
    /\ Len(Arrivals) < MaxArrivals
    /\ \E raw \in RawInputs : fetched_rss' = Append(fetched_rss, raw)
    /\ UNCHANGED <<fetched_live, local_candidates, factcheck, NotRetrievalVars>>

\* _fetch_live_search_items returns one more item
FetchLive ==
    /\ factcheck = NoRun
    /\ Len(Arrivals) < MaxArrivals
    /\ \E raw \in RawInputs : fetched_live' = Append(fetched_live, raw)
    /\ UNCHANGED <<fetched_rss, local_candidates, factcheck, NotRetrievalVars>>

\* db_search_news_candidates returns one more row
SearchLocal ==
    /\ factcheck = NoRun
    /\ Len(Arrivals) < MaxArrivals
    /\ \E raw \in RawInputs : local_candidates' = Append(local_candidates, raw)
    /\ UNCHANGED <<fetched_rss, fetched_live, factcheck, NotRetrievalVars>>

\* lines 2149-2233 of run_news_factcheck
RunFactcheck ==
    /\ factcheck = NoRun
    /\ factcheck' = Factcheck(fetched_rss, fetched_live, local_candidates,
                              claim_neg, NowDays)
    /\ UNCHANGED <<fetched_rss, fetched_live, local_candidates, NotRetrievalVars>>

NextRetrieval == FetchRss \/ FetchLive \/ SearchLocal \/ RunFactcheck

SpecRetrieval == InitRetrieval /\ [][NextRetrieval]_vars

-----------------------------------------------------------------------------
(* run_news_factcheck from its entry, and build_factcheck_report.  In this *)
(* part a text is the number of its characters, and a report is the list   *)
(* of its lines, each line a kind and a number of characters.              *)

\* FACTCHECK_MODES
FACTCHECK_MODES == {"news", "brief", "pro"}

\* FACTCHECK_MAX_EVIDENCE (its default)
FACTCHECK_MAX_EVIDENCE == 8

\* LIVE_SEARCH_ENABLED (its default)
LIVE_SEARCH_ENABLED == TRUE

\* len(NEWS_SOURCE_FEEDS_IR)
ConfiguredIrSources == 10

\* len(NEWS_SOURCE_FEEDS_GLOBAL_ACTIVE)
ConfiguredGlobalSources == 287

\* mode_evidence_limit of line 2129
EvidenceLimit(check_mode) ==
    IF check_mode = "brief" THEN 4
    ELSE IF check_mode = "news" THEN 10
    ELSE FACTCHECK_MAX_EVIDENCE

\* live_query_cap of line 2133
LiveQueryCap(check_mode) ==
    IF check_mode = "brief" THEN 1 ELSE IF check_mode = "news" THEN 2 ELSE 3

\* the input texts explored: nothing, blanks, a hashtag alone, a short claim
\* and a claim of 900 characters
ClaimTexts == {"", " ", "#tag", "short claim", "long claim"}

\* _normalize_claim_seed(text): the text cleaned, its hashtags and colour
\* marks dropped, its blanks collapsed and stripped
NormalizeClaimSeed(claim_seed) ==
    IF claim_seed \in {"", " ", "#tag"} THEN "" ELSE claim_seed

\* len(claim) of line 2093: " ".join(raw_text[:520].split())[:500]
ClaimChars(raw_text) ==
    CASE raw_text = "short claim" -> 11
      [] raw_text = "long claim"  -> 500
      [] OTHER                    -> 0

\* ReturnsEmptyError of a run that never stops at its entry
ReturnsEmptyErrorNever(raw_text) == FALSE

\* the test of line 2084 that ends the run with an error: not raw_text
ReturnsEmptyError(raw_text) == raw_text = ""

\* the error result of line 2085
EmptyTextError == [ok |-> FALSE, error |-> "empty_text"]

\* what the translation call gave: the language of the claim and the
\* translated text, none without an API key
TranslationInputs(allow_ai) ==
    IF allow_ai
    THEN {[lang |-> "fa", translated_claim |-> 0],
          [lang |-> "fa", translated_claim |-> 400],
          [lang |-> "en", translated_claim |-> 60]}
    ELSE {[lang |-> "fa", translated_claim |-> 0]}

\* two candidates as the report shows them: a short item of an unhinted
\* publisher with no publication date, and an item of a high-tier publisher
\* with a title of 200 and a link of 300 characters
ReportItems ==
    {[source |-> "blog", source_tier |-> "low", relevance |-> 3000,
      published_ts |-> 0, fetched_at |-> NowDays, neg |-> FALSE,
      title_chars |-> 20, link_chars |-> 30],
     [source |-> "reuters", source_tier |-> "high", relevance |-> 6000,
      published_ts |-> NowDays, fetched_at |-> NowDays, neg |-> FALSE,
      title_chars |-> 200, link_chars |-> 300]}

\* most ranked candidates of a run explored
MaxCandidates == 6

\* is_recent of lines 2196 and 2219 for an item published today or undated
IsRecent(it) == it.published_ts > 0

\* what the fetches, the index search and the ranking of a run gave: the
\* queries tried, the items fetched, and the ranked candidates (nothing; one
\* candidate; MaxCandidates candidates of one size after a wide retrieval)
RetrievalOutcomes ==
    {[query_attempts |-> 1, fetched_rss_count |-> 0, fetched_live_count |-> 0,
      fetched_count |-> 0, candidate_count |-> 0,
      recent_candidate_count |-> 0, ranked |-> <<>>]}
    \cup
    {[query_attempts |-> 1, fetched_rss_count |-> 1, fetched_live_count |-> 0,
      fetched_count |-> 1, candidate_count |-> 1,
      recent_candidate_count |-> IF IsRecent(it) THEN 1 ELSE 0,
      ranked |-> <<it>>] : it \in ReportItems}
    \cup
    {[query_attempts |-> 6, fetched_rss_count |-> 400, fetched_live_count |-> 36,
      fetched_count |-> 300, candidate_count |-> 200,
      recent_candidate_count |-> IF IsRecent(it) THEN 200 ELSE 0,
      ranked |-> [i \in 1..MaxCandidates |-> it]] : it \in ReportItems}

\* the replies _ai_factcheck_reasoning can get: none without the AI
ReasoningInputs(use_ai) == IF use_ai THEN ReasoningReplies ELSE {NoReply}

\* the replies _ai_factcheck_web_verdict can get in a run: none, the long
\* reply, a reply without sources and a reply that cites two sources
AiWebVerdictInputs(use_ai) ==
    IF use_ai
    THEN {NoReply, LongWebReply, WebReply(FALSE, <<>>, FALSE, <<>>),
          WebReply(FALSE, <<>>, TRUE,
                   <<Cited("https://a", 40), Cited("https://b", 40)>>)}
    ELSE {NoReply}

\* the successful result of run_news_factcheck (lines 2086-2262) for a
\* claim without negation, given what its calls returned and what the AI
\* replied; the AI labels of the evidence are left out
RunOk(raw_text, check_mode, allow_ai, tr, outcome, reasoning, web) ==
    LET use_ai == check_mode = "pro" /\ allow_ai
        sel == SubSeq(outcome.ranked, 1,
                      Min(Len(outcome.ranked), EvidenceLimit(check_mode)))
        sc == ScoreFactcheck(FALSE, sel, [i \in 1..Len(sel) |-> NoAi], NowDays)
        ai_reasoning == IF use_ai /\ sc.evidence # <<>>
                        THEN AiFactcheckReasoning(reasoning, Len(sc.evidence))
                        ELSE NoReasoning
        web_verdict == IF use_ai THEN AiFactcheckWebVerdict(web)
                       ELSE NoWebVerdict
        final == BlendFactScores(sc, BlendInput(web_verdict))
    IN  [ok |-> TRUE,
         mode |-> check_mode,
         ai_used |-> use_ai,
         claim |-> ClaimChars(raw_text),
         lang |-> tr.lang,
         translated_claim |-> IF allow_ai THEN tr.translated_claim ELSE 0,
         query_attempts |-> outcome.query_attempts,
         fetched_count |-> outcome.fetched_count,
         fetched_rss_count |-> outcome.fetched_rss_count,
         fetched_live_count |-> outcome.fetched_live_count,
         live_queries_used |->
             IF LIVE_SEARCH_ENABLED
             THEN Min(outcome.query_attempts, LiveQueryCap(check_mode)) ELSE 0,
         live_enabled |-> LIVE_SEARCH_ENABLED,
         candidate_count |-> outcome.candidate_count,
         recent_candidate_count |-> outcome.recent_candidate_count,
         ai_reasoning |-> ai_reasoning,
         ai_web |-> web_verdict,
         verdict |-> final.verdict,
         truth_prob |-> final.truth_prob,
         fake_prob |-> final.fake_prob,
         confidence |-> final.confidence,
         evidence |-> final.evidence,
         support_count |-> final.support_count,
         refute_count |-> final.refute_count,
         related_count |-> final.related_count,
         source_count |-> final.source_count,
         score_reason |-> final.score_reason,
         score_why |-> final.score_why]

\* the calls a successful run makes: refresh_news_index once (line 2130), a
\* query-feed fetch per query and a live search per query under the cap
\* (lines 2139-2147), db_upsert_news_items when something was fetched
\* (lines 2150-2151)
RunCalls(r) ==
    [refreshes |-> 1,
     fetches |-> r.query_attempts + r.live_queries_used,
     writes |-> IF r.fetched_count > 0 THEN 1 ELSE 0]

\* the calls of a run that stops at its entry
NoCalls == [refreshes |-> 0, fetches |-> 0, writes |-> 0]

\* run_news_factcheck(text, mode), given what its calls return: the result
\* and the calls made (lines 2082-2262)
RunOutcome(source_text, check_mode, allow_ai, tr, outcome, reasoning, web) ==
    LET raw_text == NormalizeClaimSeed(source_text)
    IN  IF ReturnsEmptyError(raw_text)
        THEN [result |-> EmptyTextError, calls |-> NoCalls]
        ELSE LET r == RunOk(raw_text, check_mode, allow_ai, tr, outcome,
                            reasoning, web)
             IN  [result |-> r, calls |-> RunCalls(r)]

\* the runs explored: every text in every mode, with and without an API
\* key, over what the calls of the run can return
Runs ==
    UNION {{[source_text |-> t, allow_ai |-> a,
             run |-> RunOutcome(t, m, a, tr, o, re, w)] :
               tr \in TranslationInputs(a), o \in RetrievalOutcomes,
               re \in ReasoningInputs(m = "pro" /\ a),
               w \in AiWebVerdictInputs(m = "pro" /\ a)} :
             t \in ClaimTexts, m \in FACTCHECK_MODES, a \in BOOLEAN}

-----------------------------------------------------------------------------
(* build_factcheck_report *)

\* a line of the report
Line(kind, chars) == [kind |-> kind, chars |-> chars]

\* a line that is appended under a condition
Opt(cond, line) == IF cond THEN <<line>> ELSE <<>>

RECURSIVE Concat(_)
\* the lists of a list, one after the other
Concat(seqs) == IF seqs = <<>> THEN <<>> ELSE Head(seqs) \o Concat(Tail(seqs))

\* len(str(n)) of a count
Digits(n) ==
    IF n < 10 THEN 1 ELSE IF n < 100 THEN 2 ELSE IF n < 1000 THEN 3 ELSE 4

\* int(round(x * 100)) of a probability
Percent(x) == RoundDiv(x, Scale \div 100)

\* len of the verdict texts of lines 2024-2031
VerdictChars(verdict) ==
    CASE verdict = VerdictUncertain -> 7
      [] verdict = VerdictTrue      -> 14
      [] verdict = VerdictFalse     -> 24
      [] verdict = VerdictReview    -> 19

\* len of the score_why texts of lines 1956 and 2035-2047
ReasonChars(reason) ==
    CASE reason = "no_evidence_why"      -> 86
      [] reason = "scored"               -> 83
      [] reason = "no_evidence"          -> 57
      [] reason = "conflicting_evidence" -> 86
      [] reason = "low_confidence"       -> 47
      [] reason = "near_balanced"        -> 60

\* len(score_why): the scorer's text and, after a blend with an AI
\* explanation, the separator of line 3441 and the explanation
ScoreWhyChars(r) ==
    ReasonChars(r.score_why[1])
    + (IF Len(r.score_why) > 1 THEN 21 + r.ai_web.why ELSE 0)

\* len of the mode names of line 2295
ModeNameChars(check_mode) ==
    IF check_mode = "pro" THEN 12 ELSE IF check_mode = "brief" THEN 10 ELSE 5

\* len of a publisher name
SourceChars(name) ==
    CASE name = "reuters" -> 7
      [] name = "blog"    -> 4
      [] OTHER            -> 0

\* len(_fmt_news_date(ts)): "--" or a date
DateChars(ts) == IF ts = 0 THEN 2 ELSE 10

\* len of the label icons of line 2406
IconChars(label) == IF label \in {"support", "refute", "related"} THEN 1 ELSE 2

\* len of the status texts of line 2350
StatusChars(status) ==
    IF status = "true" THEN 6 ELSE IF status = "false" THEN 8 ELSE 10

\* len of the refs text of line 2363 for k one-digit indexes
RefsChars(k) == IF k = 0 THEN 0 ELSE 3 * k + 8

\* len of the AI verdict labels of lines 2376-2380
WebLabelChars(verdict) ==
    IF verdict = "likely_true" THEN 14
    ELSE IF verdict = "likely_false" THEN 24 ELSE 7

\* the 13 lines every report starts with (lines 2293-2316)
HeadLines(r) ==
    <<Line("title", 18),
      Line("mode", 14 + ModeNameChars(r.mode)),
      Line("claim", 14 + Min(500, r.claim)),
      Line("verdict", 9 + VerdictChars(r.verdict)),
      Line("truth", 22 + Digits(Percent(r.truth_prob))),
      Line("fake", 32 + Digits(Percent(r.fake_prob))),
      Line("confidence", 22 + Digits(Percent(r.confidence))),
      Line("counts", 33 + Digits(r.support_count) + Digits(r.refute_count)
                        + Digits(r.related_count)),
      Line("source_count", 18 + Digits(r.source_count)),
      Line("index", 41 + Digits(ConfiguredGlobalSources)
                       + Digits(ConfiguredIrSources)),
      Line("retrieval", 45 + Digits(r.query_attempts)
                           + Digits(r.fetched_rss_count)
                           + Digits(r.fetched_live_count)
                           + Digits(r.fetched_count)),
      Line("time_filter", 50 + Digits(FACTCHECK_RECENT_DAYS)
                             + Digits(r.candidate_count)
                             + Digits(r.recent_candidate_count)),
      Line("live", IF r.live_enabled THEN 46 + Digits(r.live_queries_used)
                   ELSE 51)>>

\* the lines of lines 2317-2326: reason, neutral note, translation
ScoreLines(r) ==
    Opt(ScoreWhyChars(r) > 0, Line("score_why", 15 + ScoreWhyChars(r)))
    \o Opt(r.score_reason = "no_evidence", Line("neutral_note", 85))
    \o Opt(r.translated_claim > 0 /\ r.lang \in {"fa", "en"},
           Line("translation", (IF r.lang = "fa" THEN 22 ELSE 20)
                               + Min(260, r.translated_claim)))

\* the lines of one part of the AI analysis (lines 2351-2367)
PartLines(part) ==
    Opt(part.claim_part > 0,
        Line("ai_part", 2 + StatusChars(part.status) + 2 + part.claim_part
                        + RefsChars(part.evidence)))
    \o Opt(part.why > 0, Line("ai_part_why", 4 + part.why))

\* the lines of the AI analysis (lines 2328-2371)
ReasoningLines(r) ==
    IF r.mode = "pro" /\ r.ai_reasoning # NoReasoning
    THEN LET a == r.ai_reasoning
         IN  Opt(a.overall > 0, Line("ai_overall", 16 + a.overall))
             \o Opt(a.why > 0, Line("ai_why", 7 + a.why))
             \o (IF a.parts # <<>>
                 THEN <<Line("ai_parts_header", 23)>>
                      \o Concat([i \in 1..Min(5, Len(a.parts)) |->
                                   PartLines(a.parts[i])])
                 ELSE <<>>)
             \o Opt(a.missing > 0, Line("ai_missing", 17 + a.missing))
    ELSE IF r.mode = "pro" /\ ~r.ai_used THEN <<Line("ai_off", 87)>>
    ELSE <<>>

\* the lines of one source the AI cites (lines 2397-2401)
WebSourceLines(idx, src) ==
    <<Line("web_source", Digits(idx) + 10 + Min(50, src.publisher)
                         + Min(16, src.date) + Min(120, src.title))>>
    \o Opt(src.note > 0, Line("web_note", 4 + Min(140, src.note)))
    \o Opt(src.url > 0, Line("web_url", Min(300, src.url)))

\* the lines of the AI web verdict (lines 2372-2403)
WebLines(r) ==
    IF r.mode = "pro" /\ r.ai_used
    THEN IF r.ai_web # NoWebVerdict
         THEN LET w == r.ai_web
              IN  <<Line("web_verdict", 49 + WebLabelChars(w.verdict)
                                        + Digits(Percent(w.truth_prob))
                                        + Digits(Percent(w.confidence)))>>
                  \o Opt(w.why > 0, Line("web_why", 12 + Min(260, w.why)))
                  \o (IF w.checks # <<>>
                      THEN <<Line("web_checks_header", 17)>>
                           \o Concat([i \in 1..Min(4, Len(w.checks)) |->
                                        Opt(w.checks[i] > 0,
                                            Line("web_check",
                                                 4 + Min(180, w.checks[i])))])
                      ELSE <<>>)
                  \o (IF w.sources # <<>>
                      THEN <<Line("web_sources_header", 24)>>
                           \o Concat([i \in 1..Min(FACTCHECK_AI_WEBSEARCH_MAX_SOURCES,
                                                   Len(w.sources)) |->
                                        WebSourceLines(i, w.sources[i])])
                      ELSE <<>>)
         ELSE <<Line("web_none", 66)>>
    ELSE <<>>

\* source_limit of line 2407
SourceLimit(check_mode) == IF check_mode = "brief" THEN 3 ELSE 6

\* the lines of one evidence item (lines 2410-2419)
EvidenceItemLines(idx, ev) ==
    <<Line("evidence", Digits(idx) + 9 + IconChars(ev.label)
                       + Min(50, SourceChars(ev.item.source))
                       + DateChars(ev.item.published_ts)
                       + Min(160, ev.item.title_chars))>>
    \o Opt(ev.item.link_chars > 0,
           Line("evidence_link", Min(300, ev.item.link_chars)))

\* the evidence block (lines 2405-2419): its header, the notice when there
\* is no evidence, the first source_limit items
EvidenceLines(r) ==
    <<Line("evidence_header", 13)>>
    \o Opt(r.evidence = <<>>, Line("no_evidence_notice", 48))
    \o Concat([i \in 1..Min(SourceLimit(r.mode), Len(r.evidence)) |->
                 EvidenceItemLines(i, r.evidence[i])])

\* the closing lines (lines 2421-2424)
TailLines(r) ==
    Opt(r.mode = "brief", Line("brief_note", 78))
    \o <<Line("disclaimer", 75)>>

\* lines, as build_factcheck_report has built it before its length guard
ReportLines(r) ==
    HeadLines(r) \o ScoreLines(r) \o ReasoningLines(r) \o WebLines(r)
    \o EvidenceLines(r) \o TailLines(r)

\* len of the error texts
ErrorChars(error) == IF error = "empty_text" THEN 17 ELSE 6

\* the report of a failed result (lines 2266-2267)
ErrorReport(r) == <<Line("error", 24 + ErrorChars(r.error))>>

RECURSIVE SumChars(_)
\* the characters of the lines of a list
SumChars(ls) == IF ls = <<>> THEN 0 ELSE Head(ls).chars + SumChars(Tail(ls))

\* len("\n".join(lines))
OutputLen(ls) == IF ls = <<>> THEN 0 ELSE SumChars(ls) + Len(ls) - 1

\* the guard loop cutting to the 4096 characters of a message instead of 3900
GuardContinuesTo4096(ls) == OutputLen(ls) > 4096 /\ Len(ls) > 14

\* the test of the guard loop (line 2428)
GuardContinues(ls) == OutputLen(ls) > 3900 /\ Len(ls) > 14

\* lines.pop(-2 if len(lines) > 2 else -1), line 2429
PopGuarded(ls) ==
    IF Len(ls) > 2
    THEN SubSeq(ls, 1, Len(ls) - 2) \o <<ls[Len(ls)]>>
    ELSE SubSeq(ls, 1, Len(ls) - 1)

\* whether a report has a line of a kind
HasLine(ls, kind) == \E i \in 1..Len(ls) : ls[i].kind = kind

-----------------------------------------------------------------------------
(* The fact-check commands as a state machine: a command calls             *)
(* run_news_factcheck on its text, then build_factcheck_report on the      *)
(* result; the renderer's length guard is followed turn by turn.           *)

\* most commands handled in one behaviour
MaxRuns == 2

\* the variables this state machine leaves alone
NotReportVars == <<scoreVars, claim_neg, retrievalVars, serviceVars>>

InitReport ==
    /\ ScoreIdle
    /\ ServiceIdle
    /\ claim_neg = FALSE
    /\ RetrievalIdle
    /\ openai_api_key \in BOOLEAN
    /\ claim_text = ""
    /\ run_result = NoCall
    /\ pc = "idle"
    /\ lines = <<>>
    /\ report = <<>>
    /\ refresh_calls = 0
    /\ fetch_calls = 0
    /\ index_writes = 0
    /\ runs = 0

\* result = run_news_factcheck(source_text, mode) of lines 6700, 6735, 6774
RunNewsFactcheck ==
    /\ pc = "idle"
    /\ runs < MaxRuns
    /\ \E call \in Runs :
         /\ call.allow_ai = openai_api_key
         /\ claim_text' = call.source_text
         /\ run_result' = call.run.result
         /\ refresh_calls' = refresh_calls + call.run.calls.refreshes
         /\ fetch_calls' = fetch_calls + call.run.calls.fetches
         /\ index_writes' = index_writes + call.run.calls.writes
    /\ runs' = runs + 1
    /\ pc' = "returned"
    /\ UNCHANGED <<openai_api_key, lines, report, NotReportVars>>

\* build_factcheck_report(result) up to its length guard (lines 2266-2427)
BuildReport ==
    /\ pc = "returned"
    /\ IF run_result.ok
       THEN /\ lines' = ReportLines(run_result)
            /\ pc' = "guard"
            /\ UNCHANGED report
       ELSE /\ lines' = ErrorReport(run_result)
            /\ report' = ErrorReport(run_result)
            /\ pc' = "done"
    /\ UNCHANGED <<openai_api_key, claim_text, run_result, refresh_calls,
                   fetch_calls, index_writes, runs, NotReportVars>>

\* one turn of the guard loop (lines 2428-2430)
GuardPop ==
    /\ pc = "guard"
    /\ GuardContinues(lines)
    /\ lines' = PopGuarded(lines)
    /\ UNCHANGED <<openai_api_key, claim_text, run_result, pc, report,
                   refresh_calls, fetch_calls, index_writes, runs, NotReportVars>>

\* the guard loop ends and the report is returned (lines 2428, 2431)
ReturnReport ==
    /\ pc = "guard"
    /\ ~GuardContinues(lines)
    /\ report' = lines
    /\ pc' = "done"
    /\ UNCHANGED <<openai_api_key, claim_text, run_result, lines,
                   refresh_calls, fetch_calls, index_writes, runs, NotReportVars>>

\* the command sends the report and returns (lines 6702-6710)
SendReport ==
    /\ pc = "done"
    /\ pc' = "idle"
    /\ claim_text' = ""
    /\ run_result' = NoCall
    /\ lines' = <<>>
    /\ report' = <<>>
    /\ UNCHANGED <<openai_api_key, refresh_calls, fetch_calls, index_writes,
                   runs, NotReportVars>>

\* one command, from the call of run_news_factcheck to the returned report
NextRender == RunNewsFactcheck \/ BuildReport \/ GuardPop \/ ReturnReport

\* one command; the renderer, once in its guard loop, keeps running
SpecRender ==
    /\ InitReport
    /\ [][NextRender]_vars
    /\ WF_vars(GuardPop \/ ReturnReport)

\* up to MaxRuns commands, one after the other
NextRuns ==
    RunNewsFactcheck \/ BuildReport \/ GuardPop \/ ReturnReport \/ SendReport

SpecRuns == InitReport /\ [][NextRuns]_vars

-----------------------------------------------------------------------------
(* The network and AI calls of a run.  Every call gets a response: a body   *)
(* (ok), a timeout (requests raises), a status of 400 or more, or a body    *)
(* the parser cannot read.                                                  *)

\* the outcomes of an HTTP call
ResponseKinds == {"ok", "timeout", "http_error", "malformed"}

\* what a call hands back to its caller: a list, or an exception
Returned(its) == [raised |-> FALSE, items |-> its]

\* an exception that leaves the function
Raises == [raised |-> TRUE, items |-> <<>>]

\* _extract_feed_items(res.text): the items of the body; a body the parser
\* cannot read raises inside the try of _fetch_rss_items
ExtractFeedItems(res) ==
    IF res.kind = "malformed" THEN Raises ELSE Returned(res.items)

\* _fetch_rss_items with no try around the request
FetchRssItemsUnguarded(res) ==
    IF res.kind = "timeout" THEN Raises
    ELSE IF res.kind = "http_error" THEN Returned(<<>>)
    ELSE ExtractFeedItems(res)

\* _fetch_rss_items (lines 1171-1182): [] on an exception and on a status of
\* 400 or more, the items of the body otherwise
FetchRssItems(res) ==
    IF res.kind = "timeout" THEN Returned(<<>>)
    ELSE IF res.kind = "http_error" THEN Returned(<<>>)
    ELSE LET parsed == ExtractFeedItems(res)
         IN  IF parsed.raised THEN Returned(<<>>) ELSE parsed

\* _fetch_live_search_page (lines 1455-1462): "" on an exception and on a
\* status of 400 or more; TRUE when a page came back
FetchLiveSearchPage(res) == res.kind \in {"ok", "malformed"}

\* _parse_ddg_html_results, _parse_bing_html_results: the results read
\* before the parser failed are returned (except Exception: return out)
ParseHtmlResults(res) == res.items

\* _extract_article_metadata (lines 1394-1452): the publication day of the
\* page, 0 when the fetch or the parse failed or the page names none
ExtractArticleMetadata(art) == IF art.kind = "ok" THEN art.published_ts ELSE 0

\* lines 1621-1632: the metadata of the article page written into the item
ApplyArticleMetadata(item, art) ==
    LET published_ts == ExtractArticleMetadata(art)
    IN  IF published_ts # 0 THEN [item EXCEPT !.published_ts = published_ts]
        ELSE item

\* _fetch_live_search_items (lines 1601-1631) for one results page and one
\* answer of the article pages
FetchLiveSearchItems(res, art) ==
    LET merged == IF FetchLiveSearchPage(res)
                  THEN MergeNewsItems(ParseHtmlResults(res))
                  ELSE <<>>
    IN  Returned([i \in 1..Len(merged) |-> ApplyArticleMetadata(merged[i], art)])

\* call_recommendation_model (lines 3158-3211): the text of the reply, ""
\* on a timeout, a request error, a status of 400 or more or a body without
\* text; TRUE when a text came back
CallRecommendationModel(res) == res.kind = "ok"

\* _ai_label_evidence (lines 1782-1833): a label per evidence item when the
\* reply is a JSON array, {} otherwise
AiLabelEvidence(res, evidence) ==
    [i \in 1..Len(evidence) |->
        IF CallRecommendationModel(res) /\ res.json_array
        THEN [label |-> res.label, confidence |-> 9000]
        ELSE NoAi]

\* the story a feed brings back: a wire item
FeedItem ==
    [link |-> "u1", title |-> "xa", summary |-> "", source |-> "reuters",
     source_tier |-> InferSourceTier("reuters", "medium"),
     published_ts |-> 0, fetched_at |-> NowDays]

\* the story a results page brings back: a blog item that words the story
\* as a denial
PageItem ==
    [link |-> "u2", title |-> "xb", summary |-> "", source |-> "blog",
     source_tier |-> InferSourceTier("blog", "medium"),
     published_ts |-> 0, fetched_at |-> NowDays]

\* the responses of a feed: a body with one item or none, a timeout, an
\* error page whose body also parses, a body that breaks the parser
FeedResponses ==
    {[kind |-> "ok", items |-> <<FeedItem>>],
     [kind |-> "ok", items |-> <<>>],
     [kind |-> "timeout", items |-> <<>>],
     [kind |-> "http_error", items |-> <<FeedItem>>],
     [kind |-> "malformed", items |-> <<FeedItem>>]}

\* the responses of a results page: a page with one result, a timeout, an
\* error page, a page that breaks the parser after one result
PageResponses ==
    {[kind |-> "ok", items |-> <<PageItem>>],
     [kind |-> "timeout", items |-> <<>>],
     [kind |-> "http_error", items |-> <<PageItem>>],
     [kind |-> "malformed", items |-> <<PageItem>>]}

\* no article page is fetched when the search gave no result (line 1621)
NoArticle == [kind |-> "none", published_ts |-> 0]

\* the responses of the article page of a result
ArticleResponses(res) ==
    IF FetchLiveSearchPage(res) /\ ParseHtmlResults(res) # <<>>
    THEN {[kind |-> "ok", published_ts |-> NowDays],
          [kind |-> "timeout", published_ts |-> 0],
          [kind |-> "http_error", published_ts |-> NowDays]}
    ELSE {NoArticle}

\* the responses of the model to the labelling prompt: an array of labels,
\* a text that is no JSON array, a timeout, a status of 400 or more
AiResponses ==
    {[kind |-> "ok", json_array |-> TRUE, label |-> "support"],
     [kind |-> "ok", json_array |-> FALSE, label |-> "none"],
     [kind |-> "timeout", json_array |-> FALSE, label |-> "none"],
     [kind |-> "http_error", json_array |-> FALSE, label |-> "none"]}

\* most network calls of one run explored
MaxCalls == 2

\* the variables the calls leave alone
NotChannelVars ==
    <<scoreVars, claim_neg, reportVars, refreshVars, indexVars, cacheVars,
      summaryVars, helperVars>>

InitChannels ==
    /\ ScoreIdle
    /\ ReportIdle
    /\ claim_neg = FALSE
    /\ RetrievalIdle
    /\ ServiceIdle

\* one turn of the loop of refresh_news_index (lines 1297-1303), called at
\* line 2130: a feed is pulled and its items are upserted; the rows that
\* match the claim are what db_search_news_candidates finds later
PullFeed ==
    /\ factcheck = NoRun
    /\ Len(responses) < MaxCalls
    /\ fetched_rss = <<>> /\ fetched_live = <<>>
    /\ \E res \in FeedResponses :
         LET got == FetchRssItems(res)
         IN  /\ responses' = Append(responses, [channel |-> "feed", res |-> res])
             /\ raised' = (raised \/ got.raised)
             /\ local_candidates' = local_candidates \o got.items
    /\ UNCHANGED <<fetched_rss, fetched_live, factcheck, NotChannelVars>>

\* one turn of the loop of _fetch_query_news_items (lines 1340-1343),
\* called at line 2140
FetchQueryFeed ==
    /\ factcheck = NoRun
    /\ Len(responses) < MaxCalls
    /\ \E res \in FeedResponses :
         LET got == FetchRssItems(res)
         IN  /\ responses' = Append(responses, [channel |-> "query", res |-> res])
             /\ raised' = (raised \/ got.raised)
             /\ fetched_rss' = fetched_rss \o got.items
    /\ UNCHANGED <<fetched_live, local_candidates, factcheck, NotChannelVars>>

\* _fetch_live_search_items(query) of line 2145
FetchLiveSearch ==
    /\ factcheck = NoRun
    /\ Len(responses) < MaxCalls
    /\ \E res \in PageResponses :
       \E art \in ArticleResponses(res) :
         LET got == FetchLiveSearchItems(res, art)
         IN  /\ responses' = Append(responses,
                                   [channel |-> "live", res |-> res, art |-> art])
             /\ raised' = (raised \/ got.raised)
             /\ fetched_live' = fetched_live \o got.items
    /\ UNCHANGED <<fetched_rss, local_candidates, factcheck, NotChannelVars>>

\* lines 2149-2262 of run_news_factcheck in mode "pro" with an API key: the
\* merge, the selection, the labelling call, the score, and ok = True
ScoreWithLabels ==
    /\ factcheck = NoRun
    /\ ~raised
    /\ \E ai \in AiResponses :
         LET run == Factcheck(fetched_rss, fetched_live, local_candidates,
                              claim_neg, NowDays)
             labels == AiLabelEvidence(ai, run.selected)
         IN  /\ responses' = Append(responses, [channel |-> "ai", res |-> ai])
             /\ factcheck' =
                  [ok |-> TRUE,
                   fetched_combined |-> run.fetched_combined,
                   candidate_pool |-> run.candidate_pool,
                   selected |-> run.selected,
                   scored |-> ScoreFactcheck(claim_neg, run.selected,
                                             labels, NowDays)]
    /\ UNCHANGED <<fetched_rss, fetched_live, local_candidates, raised,
                   NotChannelVars>>

NextChannels == PullFeed \/ FetchQueryFeed \/ FetchLiveSearch \/ ScoreWithLabels

SpecChannels == InitChannels /\ [][NextChannels]_vars

-----------------------------------------------------------------------------
(* refresh_news_index(force=False) called from several threads.  Time is   *)
(* counted in ticks; the minimum gap is MinGapSec ticks.                    *)

\* min_gap_sec of line 1289, in ticks
MinGapSec == 2

\* last tick explored
MaxClock == 3

\* len(NEWS_SOURCE_FEEDS) (line 322)
FeedCount == ConfiguredIrSources + ConfiguredGlobalSources

\* NEWS_REFRESH_MAX_FEEDS (its default)
NEWS_REFRESH_MAX_FEEDS == 85

\* NEWS_FEED_CURSOR after _news_feed_batch (lines 1275-1280)
NewsFeedBatchCursor(cursor) ==
    LET cap == Max(1, Min(NEWS_REFRESH_MAX_FEEDS, FeedCount))
    IN  IF FeedCount <= cap THEN cursor
        ELSE ((cursor % FeedCount) + cap) % FeedCount

\* a with statement that does not wait for the lock
LockIgnored(holder) == TRUE

\* with NEWS_LOCK (line 1287): the lock can be taken when it is free
LockFree(holder) == holder = "none"

\* a rate limit that looks at the timestamp of the last refresh alone
LatestRefreshTs == NEWS_LAST_REFRESH_TS

\* latest_ts of line 1288: the later of the last refresh and of the newest
\* fetched_at in the index (db_latest_news_fetch_ts, lines 1239-1249)
LatestTs == Max(NEWS_LAST_REFRESH_TS, db_latest_fetch)

\* the test of line 1290 for a call that is not forced
RateLimited(latest_ts, now) ==
    latest_ts > 0 /\ (now - latest_ts) < MinGapSec

\* the variables refresh_news_index leaves alone
NotRefreshVars ==
    <<scoreVars, claim_neg, retrievalVars, reportVars, channelVars, indexVars,
      cacheVars, summaryVars, helperVars>>

InitRefresh ==
    /\ ScoreIdle
    /\ ReportIdle
    /\ claim_neg = FALSE
    /\ RetrievalIdle
    /\ ServiceIdle

\* time passes
Tick ==
    /\ clock < MaxClock
    /\ clock' = clock + 1
    /\ UNCHANGED <<NEWS_LOCK, NEWS_LAST_REFRESH_TS, NEWS_FEED_CURSOR,
                   db_latest_fetch, rpc, now_ts, refreshed, pulls, prunes,
                   NotRefreshVars>>

\* a thread enters refresh_news_index and reads the time (line 1286)
ReadNow(t) ==
    /\ rpc[t] = "idle"
    /\ now_ts' = [now_ts EXCEPT ![t] = clock]
    /\ rpc' = [rpc EXCEPT ![t] = "called"]
    /\ UNCHANGED <<clock, NEWS_LOCK, NEWS_LAST_REFRESH_TS, NEWS_FEED_CURSOR,
                   db_latest_fetch, refreshed, pulls, prunes, NotRefreshVars>>

\* the thread takes NEWS_LOCK (line 1287)
AcquireNewsLock(t) ==
    /\ rpc[t] = "called"
    /\ LockFree(NEWS_LOCK)
    /\ NEWS_LOCK' = t
    /\ rpc' = [rpc EXCEPT ![t] = "locked"]
    /\ UNCHANGED <<clock, NEWS_LAST_REFRESH_TS, NEWS_FEED_CURSOR,
                   db_latest_fetch, now_ts, refreshed, pulls, prunes,
                   NotRefreshVars>>

\* lines 1288-1291: the last refresh is younger than the gap, the call
\* returns refreshed = False and leaves the lock
SkipRefresh(t) ==
    /\ rpc[t] = "locked"
    /\ RateLimited(LatestTs, now_ts[t])
    /\ refreshed' = [refreshed EXCEPT ![t] = "false"]
    /\ rpc' = [rpc EXCEPT ![t] = "idle"]
    /\ now_ts' = [now_ts EXCEPT ![t] = 0]
    /\ NEWS_LOCK' = "none"
    /\ UNCHANGED <<clock, NEWS_LAST_REFRESH_TS, NEWS_FEED_CURSOR,
                   db_latest_fetch, pulls, prunes, NotRefreshVars>>

\* lines 1288-1296: the call passes the test and takes its batch of feeds
TakeBatch(t) ==
    /\ rpc[t] = "locked"
    /\ ~RateLimited(LatestTs, now_ts[t])
    /\ NEWS_FEED_CURSOR' = NewsFeedBatchCursor(NEWS_FEED_CURSOR)
    /\ rpc' = [rpc EXCEPT ![t] = "pulling"]
    /\ UNCHANGED <<clock, NEWS_LOCK, NEWS_LAST_REFRESH_TS, db_latest_fetch,
                   now_ts, refreshed, pulls, prunes, NotRefreshVars>>

\* lines 1297-1303: the feeds are pulled and what they gave is upserted with
\* the time of the pull as fetched_at; a pull can give nothing
PullBatch(t) ==
    /\ rpc[t] = "pulling"
    /\ pulls' = Append(pulls, [thread |-> t, now_ts |-> now_ts[t], until |-> clock])
    /\ db_latest_fetch' \in {db_latest_fetch, Max(db_latest_fetch, clock)}
    /\ rpc' = [rpc EXCEPT ![t] = "pulled"]
    /\ UNCHANGED <<clock, NEWS_LOCK, NEWS_LAST_REFRESH_TS, NEWS_FEED_CURSOR,
                   now_ts, refreshed, prunes, NotRefreshVars>>

\* lines 1304-1306: the timestamp is set, the index is pruned (rows with an
\* old publication date go, whenever they were fetched), the call returns
\* refreshed = True and leaves the lock; the history keeps the time the
\* refresh ended
FinishRefresh(t) ==
    /\ rpc[t] = "pulled"
    /\ NEWS_LAST_REFRESH_TS' = now_ts[t]
    /\ prunes' = prunes + 1
    /\ db_latest_fetch' \in {db_latest_fetch, 0}
    /\ refreshed' = [refreshed EXCEPT ![t] = "true"]
    /\ rpc' = [rpc EXCEPT ![t] = "idle"]
    /\ now_ts' = [now_ts EXCEPT ![t] = 0]
    /\ NEWS_LOCK' = "none"
    /\ pulls' = [pulls EXCEPT ![Len(pulls)].until = clock]
    /\ UNCHANGED <<clock, NEWS_FEED_CURSOR, NotRefreshVars>>

\* the threads that run run_news_factcheck
Handlers == {"handler1", "handler2"}

\* db_upsert_news_items(fetched_combined) of line 2151, in a handler thread
\* that is past its refresh of line 2130: rows fetched now enter the index
UpsertFetched ==
    /\ \E t \in Handlers : rpc[t] = "idle" /\ refreshed[t] # "none"
    /\ db_latest_fetch < clock
    /\ db_latest_fetch' = clock
    /\ UNCHANGED <<clock, NEWS_LOCK, NEWS_LAST_REFRESH_TS, NEWS_FEED_CURSOR,
                   rpc, now_ts, refreshed, pulls, prunes, NotRefreshVars>>

NextRefresh ==
    \/ Tick
    \/ UpsertFetched
    \/ \E t \in Threads : ReadNow(t)
    \/ \E t \in Threads : AcquireNewsLock(t)
    \/ \E t \in Threads : SkipRefresh(t)
    \/ \E t \in Threads : TakeBatch(t)
    \/ \E t \in Threads : PullBatch(t)
    \/ \E t \in Threads : FinishRefresh(t)

SpecRefresh == InitRefresh /\ [][NextRefresh]_vars

-----------------------------------------------------------------------------
(* db_upsert_news_items called from several threads *)

\* str(x or "").strip() on the texts of the model
Strip(text) == IF text = " " THEN "" ELSE text

\* the row built from one item (lines 1196-1209); the tier is inferred with
\* the item's tier in the place of the source name (line 1201)
BuildRow(item) ==
    [source |-> Strip(item.source), link |-> Strip(item.link),
     title |-> Strip(item.title),
     source_tier |-> InferSourceTier(item.source_tier, "medium"),
     fetched_at |-> item.fetched_at]

\* the test of line 1194
RowSkipped(row) == row.source = "" \/ row.link = "" \/ row.title = ""

RECURSIVE BuildRows(_)
\* the rows list of lines 1189-1209
BuildRows(its) ==
    IF its = <<>> THEN <<>>
    ELSE LET row == BuildRow(Head(its))
         IN  (IF RowSkipped(row) THEN <<>> ELSE <<row>>) \o BuildRows(Tail(its))

\* the rows of the table that conflict with a row on UNIQUE(source, link)
Conflicts(table, row) ==
    {i \in 1..Len(table) :
        table[i].source = row.source /\ table[i].link = row.link}

\* INSERT ... ON CONFLICT DO NOTHING: the stored row is kept
InsertOrIgnore(table, row) ==
    IF Conflicts(table, row) = {} THEN Append(table, row) ELSE table

\* INSERT ... ON CONFLICT(source, link) DO UPDATE SET ... (lines 1218-1229):
\* every other column of the stored row is overwritten
InsertOrUpdate(table, row) ==
    IF Conflicts(table, row) = {} THEN Append(table, row)
    ELSE [i \in 1..Len(table) |->
            IF i \in Conflicts(table, row) THEN row ELSE table[i]]

RECURSIVE ExecuteMany(_, _)
\* cur.executemany(..., rows) of lines 1216-1232: one statement per row, in
\* list order
ExecuteMany(table, rws) ==
    IF rws = <<>> THEN table
    ELSE ExecuteMany(InsertOrUpdate(table, Head(rws)), Tail(rws))

\* the items handed to db_upsert_news_items: two stories in two wordings,
\* from a wire and from a blog that carry the same link, and items that lack
\* a source, a link or a title
UpsertItems ==
    {[source |-> "reuters", link |-> "u1", title |-> t, source_tier |-> "high",
      fetched_at |-> NowDays] : t \in {"xa", "xb"}}
    \cup {[source |-> "blog", link |-> "u1", title |-> "xa",
           source_tier |-> "low", fetched_at |-> NowDays]}
    \cup {[source |-> " ", link |-> "u1", title |-> "xa", source_tier |-> "low",
           fetched_at |-> NowDays],
          [source |-> "blog", link |-> "", title |-> "xa", source_tier |-> "low",
           fetched_at |-> NowDays],
          [source |-> "blog", link |-> "u1", title |-> "", source_tier |-> "low",
           fetched_at |-> NowDays]}

\* the lists handed over: one item or two
UpsertBatches ==
    {<<a>> : a \in UpsertItems} \cup {<<a, b>> : a \in UpsertItems, b \in UpsertItems}

\* most calls of db_upsert_news_items explored
MaxUpserts == 2

\* the number of items of a list that line 1195 passes over
SkippedIn(its) == Len(its) - Len(BuildRows(its))

\* the variables db_upsert_news_items leaves alone
NotIndexVars ==
    <<scoreVars, claim_neg, retrievalVars, reportVars, channelVars, refreshVars,
      cacheVars, summaryVars, helperVars>>

InitIndex ==
    /\ ScoreIdle
    /\ ReportIdle
    /\ claim_neg = FALSE
    /\ RetrievalIdle
    /\ ServiceIdle

\* lines 1186-1211: the thread builds its rows; with no row it returns 0
BuildUpsert(t) ==
    /\ upc[t] = "idle"
    /\ upsert_calls < MaxUpserts
    /\ upsert_calls' = upsert_calls + 1
    /\ \E its \in UpsertBatches :
         /\ rows' = [rows EXCEPT ![t] = BuildRows(its)]
         /\ skipped' = skipped + SkippedIn(its)
         /\ upc' = [upc EXCEPT ![t] = IF BuildRows(its) = <<>> THEN "idle"
                                      ELSE "built"]
    /\ UNCHANGED <<news_index, DB_LOCK, upsert_log, NotIndexVars>>

\* with DB_LOCK (line 1212)
AcquireDbLock(t) ==
    /\ upc[t] = "built"
    /\ DB_LOCK = "none"
    /\ DB_LOCK' = t
    /\ upc' = [upc EXCEPT ![t] = "locked"]
    /\ UNCHANGED <<news_index, rows, upsert_log, skipped, upsert_calls,
                   NotIndexVars>>

\* lines 1213-1236: the statements run, the transaction commits, the lock
\* is left
CommitUpsert(t) ==
    /\ upc[t] = "locked"
    /\ news_index' = ExecuteMany(news_index, rows[t])
    /\ upsert_log' = upsert_log \o [i \in 1..Len(rows[t]) |->
                                      [thread |-> t, row |-> rows[t][i]]]
    /\ rows' = [rows EXCEPT ![t] = <<>>]
    /\ upc' = [upc EXCEPT ![t] = "idle"]
    /\ DB_LOCK' = "none"
    /\ UNCHANGED <<skipped, upsert_calls, NotIndexVars>>

NextIndex ==
    \/ \E t \in UpsertThreads : BuildUpsert(t)
    \/ \E t \in UpsertThreads : AcquireDbLock(t)
    \/ \E t \in UpsertThreads : CommitUpsert(t)

SpecIndex == InitIndex /\ [][NextIndex]_vars

-----------------------------------------------------------------------------
(* The in-memory AI response cache: _ai_cache_get and _ai_cache_put *)

\* the smallest cap the configuration admits (line 63)
AI_CACHE_MAX_ITEMS == 50

\* the shortest time to live the configuration admits (line 62)
AI_CACHE_TTL_SEC == 60

\* max(1, AI_CACHE_MAX_ITEMS // 6) of line 3117
EvictCount ==
    IF AI_CACHE_MAX_ITEMS \div 6 > 1 THEN AI_CACHE_MAX_ITEMS \div 6 ELSE 1

\* the position of the entry a key names; 0 for a key the cache does not hold
KeyPosition(cache, key) ==
    CASE key = "first" -> 1
      [] key = "last" -> Len(cache)
      [] OTHER -> 0

\* AI_RESPONSE_CACHE[key] = (exp, value) of line 3113: a key the dict holds
\* keeps its place, a new key goes to the end
Stored(cache, key, exp) ==
    IF KeyPosition(cache, key) = 0 THEN Append(cache, exp)
    ELSE [cache EXCEPT ![KeyPosition(cache, key)] = exp]

\* the place of the entry written by line 3113
StoredAt(cache, key) ==
    IF KeyPosition(cache, key) = 0 THEN Len(cache) + 1
    ELSE KeyPosition(cache, key)

\* the number of entries that sorted(..., key=expire_ts) puts before the
\* entry at p: the sort is stable, so equal expiries keep the dict's order
SortRank(cache, p) ==
    Cardinality({q \in 1..Len(cache) :
        cache[q] < cache[p] \/ (cache[q] = cache[p] /\ q < p)})

\* old_items of line 3117, as positions
OldItems(cache) == {p \in 1..Len(cache) : SortRank(cache, p) < EvictCount}

RECURSIVE PopAll(_, _, _)
\* the loop of lines 3118-3119: the cache without the entries at the
\* positions given, from position p on
PopAll(cache, old, p) ==
    IF p > Len(cache) THEN <<>>
    ELSE (IF p \in old THEN <<>> ELSE <<cache[p]>>) \o PopAll(cache, old, p + 1)

\* the body of _ai_cache_put under the lock (lines 3113-3119)
AiCachePut(cache, key, exp) ==
    LET full == Stored(cache, key, exp)
    IN  IF Len(full) <= AI_CACHE_MAX_ITEMS THEN full
        ELSE PopAll(full, OldItems(full), 1)

\* the body of _ai_cache_get under the lock (lines 3097-3104): an entry
\* past its expiry is popped
AiCacheGet(cache, key, now) ==
    IF KeyPosition(cache, key) = 0 THEN cache
    ELSE IF cache[KeyPosition(cache, key)] < now
         THEN PopAll(cache, {KeyPosition(cache, key)}, 1)
         ELSE cache

\* the keys a call can carry: a key the cache does not hold, the key of its
\* last entry or, for a get, the key of its first entry
CallKeys(cache, called) ==
    {"new"} \cup (IF cache = <<>> THEN {}
                  ELSE IF called = "get_called" THEN {"first", "last"}
                  ELSE {"last"})

\* most moves of the clock explored
MaxTicks == 1

\* the variables the cache functions leave alone
NotCacheVars ==
    <<scoreVars, claim_neg, retrievalVars, reportVars, channelVars, refreshVars,
      indexVars, summaryVars, helperVars>>

InitCache ==
    /\ ScoreIdle
    /\ ReportIdle
    /\ claim_neg = FALSE
    /\ RetrievalIdle
    /\ ServiceIdle

\* a second passes, or more than the time to live
CacheTick ==
    /\ cache_ticks < MaxTicks
    /\ cache_ticks' = cache_ticks + 1
    /\ \E step \in {1, AI_CACHE_TTL_SEC + 1} : cache_clock' = cache_clock + step
    /\ UNCHANGED <<AI_RESPONSE_CACHE, AI_CACHE_LOCK, cpc, cache_now, cache_key,
                   NotCacheVars>>

\* lines 3107-3111: _ai_cache_put is called with a non-blank value and
\* reads the clock
CallPut(t) ==
    /\ cpc[t] = "idle"
    /\ cpc' = [cpc EXCEPT ![t] = "put_called"]
    /\ cache_now' = [cache_now EXCEPT ![t] = cache_clock]
    /\ UNCHANGED <<AI_RESPONSE_CACHE, AI_CACHE_LOCK, cache_key, cache_clock,
                   cache_ticks, NotCacheVars>>

\* lines 3092-3095: _ai_cache_get is called and reads the clock
CallGet(t) ==
    /\ cpc[t] = "idle"
    /\ cpc' = [cpc EXCEPT ![t] = "get_called"]
    /\ cache_now' = [cache_now EXCEPT ![t] = cache_clock]
    /\ UNCHANGED <<AI_RESPONSE_CACHE, AI_CACHE_LOCK, cache_key, cache_clock,
                   cache_ticks, NotCacheVars>>

\* with AI_CACHE_LOCK (lines 3096, 3112); what the call's key names in the
\* dict is settled from here on, for no other thread can change the dict
AcquireCacheLock(t) ==
    /\ cpc[t] \in {"put_called", "get_called"}
    /\ AI_CACHE_LOCK = "none"
    /\ AI_CACHE_LOCK' = t
    /\ cpc' = [cpc EXCEPT ![t] = IF cpc[t] = "put_called" THEN "put_locked"
                                 ELSE "get_locked"]
    /\ \E key \in CallKeys(AI_RESPONSE_CACHE, cpc[t]) :
         cache_key' = [cache_key EXCEPT ![t] = key]
    /\ UNCHANGED <<AI_RESPONSE_CACHE, cache_now, cache_clock, cache_ticks,
                   NotCacheVars>>

\* lines 3113-3119, and the lock is left
CommitPut(t) ==
    /\ cpc[t] = "put_locked"
    /\ AI_RESPONSE_CACHE' =
         AiCachePut(AI_RESPONSE_CACHE, cache_key[t], cache_now[t] + AI_CACHE_TTL_SEC)
    /\ AI_CACHE_LOCK' = "none"
    /\ cpc' = [cpc EXCEPT ![t] = "idle"]
    /\ cache_now' = [cache_now EXCEPT ![t] = 0]
    /\ cache_key' = [cache_key EXCEPT ![t] = "none"]
    /\ UNCHANGED <<cache_clock, cache_ticks, NotCacheVars>>

\* lines 3097-3104, and the lock is left
CommitGet(t) ==
    /\ cpc[t] = "get_locked"
    /\ AI_RESPONSE_CACHE' = AiCacheGet(AI_RESPONSE_CACHE, cache_key[t], cache_now[t])
    /\ AI_CACHE_LOCK' = "none"
    /\ cpc' = [cpc EXCEPT ![t] = "idle"]
    /\ cache_now' = [cache_now EXCEPT ![t] = 0]
    /\ cache_key' = [cache_key EXCEPT ![t] = "none"]
    /\ UNCHANGED <<cache_clock, cache_ticks, NotCacheVars>>

NextCache ==
    \/ CacheTick
    \/ \E t \in CacheThreads : CallPut(t)
    \/ \E t \in CacheThreads : CallGet(t)
    \/ \E t \in CacheThreads : AcquireCacheLock(t)
    \/ \E t \in CacheThreads : CommitPut(t)
    \/ \E t \in CacheThreads : CommitGet(t)

SpecCache == InitCache /\ [][NextCache]_vars

-----------------------------------------------------------------------------
(* The local summarizer: _extractive_summary_local and the functions it
   calls. A text is the list of its sentences; a sentence is made of words
   of four characters, so a sentence of k words has 5k - 1 characters. *)

\* The characters of a text, by what _shrink_clause does with them: a
\* letter, digit or sign inside a word; a space; a mark at which it cuts and
\* which it strips from the end (. ? and the Persian comma and question
\* mark); the ellipsis it appends, which it neither cuts at nor strips.
Letter == "a"

Space == " "

Stop == "."

Ellipsis == "~"

\* a word of n letters
Word(n) == [i \in 1..n |-> Letter]

RECURSIVE JoinWords(_)
\* " ".join(parts)
JoinWords(parts) ==
    IF parts = <<>> THEN <<>>
    ELSE IF Len(parts) = 1 THEN parts[1]
    ELSE parts[1] \o <<Space>> \o JoinWords(Tail(parts))

RECURSIVE LastIndexFrom(_, _, _)
\* the last position up to i of str that holds one of chars, 0 when none
\* does
LastIndexFrom(str, chars, i) ==
    IF i = 0 THEN 0
    ELSE IF str[i] \in chars THEN i
    ELSE LastIndexFrom(str, chars, i - 1)

\* the last position of str that holds one of chars, 0 when none does
LastIndexOf(str, chars) == LastIndexFrom(str, chars, Len(str))

\* str.rstrip(chars)
RStrip(str, chars) ==
    SubSeq(str, 1, LastIndexOf(str, {Letter, Space, Stop, Ellipsis} \ chars))

\* _shrink_clause(text, max_chars, add_ellipsis) (lines 3561-3573); value is
\* a text as the summarizer holds it, with single spaces and none at its
\* ends
ShrinkClause(value, max_chars, add_ellipsis) ==
    IF Len(value) <= max_chars THEN value
    ELSE LET cut == SubSeq(value, 1, max_chars)
             split_pos == LastIndexOf(cut, {Space, Stop}) - 1
             kept == IF split_pos >= (55 * max_chars) \div 100
                     THEN SubSeq(cut, 1, split_pos) ELSE cut
             stripped == RStrip(kept, {Space, Stop})
             cut_clean == IF stripped = <<>>
                          THEN RStrip(SubSeq(value, 1, Max(12, Min(max_chars, 36))),
                                      {Space})
                          ELSE stripped
         IN  cut_clean \o (IF add_ellipsis /\ Len(cut_clean) < Len(value)
                           THEN <<Ellipsis>> ELSE <<>>)

RECURSIVE SumSeq(_)
\* sum(seq)
SumSeq(seq) == IF seq = <<>> THEN 0 ELSE Head(seq) + SumSeq(Tail(seq))

\* len("\n".join(lines)) for lines of the lengths given
JoinedChars(lns) == IF lns = <<>> THEN 0 ELSE SumSeq(lns) + Len(lns) - 1

\* sorted(set(idx)) as a list
Ascending(idx) ==
    [i \in 1..Cardinality(idx) |->
        CHOOSE x \in idx : Cardinality({y \in idx : y < x}) = i - 1]

\* The words a sentence opens with. A sentence that names a place has a
\* word, the word for "place" and the ordinal with a comma; each signal is
\* one word of the lists of lines 3679-3690: "bank" is the word for a bank,
\* "secret" the one for confidential, "reply" the one for an answer, "split"
\* the one for sharing, and "currency" a number of seven digits and the
\* word for dollars.
SignalWords(sentence) ==
    (IF sentence.rank > 0 THEN <<Word(4), Word(4), Word(3) \o <<Stop>>>> ELSE <<>>)
    \o (IF "bank" \in sentence.signals THEN <<Word(4)>> ELSE <<>>)
    \o (IF "secret" \in sentence.signals THEN <<Word(7)>> ELSE <<>>)
    \o (IF "reply" \in sentence.signals THEN <<Word(4)>> ELSE <<>>)
    \o (IF "split" \in sentence.signals THEN <<Word(5)>> ELSE <<>>)
    \o (IF "currency" \in sentence.signals THEN <<Word(7), Word(4)>> ELSE <<>>)

\* len of the e-mail address of a sentence with the signal "mail"
MailChars == 13

\* len of the amount of a sentence with the signal "currency"
AmountChars == 12

\* the word a sentence ends with: an e-mail address (name@host.tld) or a
\* word of three letters, and the full stop or question mark
LastWord(sentence) ==
    IF "mail" \in sentence.signals
    THEN Word(MailChars - 4) \o <<Stop>> \o Word(3) \o <<Stop>>
    ELSE Word(3) \o <<Stop>>

\* the characters of a sentence: its opening words, sentence.fill words of
\* four letters, and its last word
SentenceChars(sentence) ==
    JoinWords(SignalWords(sentence)
              \o [i \in 1..sentence.fill |-> Word(4)]
              \o <<LastWord(sentence)>>)

\* the sentences explored: plain ones of 6 and 46 words, sentences that
\* name the first and the second place, a question, a sentence with a bank,
\* confidentiality, a call to reply and an e-mail address, and one with an
\* amount in dollars to be shared
SentenceInputs ==
    {[fill |-> n, rank |-> 0, question |-> FALSE, signals |-> {}] :
        n \in {5, 45}}
    \cup {[fill |-> 6, rank |-> r, question |-> FALSE, signals |-> {}] :
            r \in {1, 2}}
    \cup {[fill |-> 7, rank |-> 0, question |-> TRUE, signals |-> {}],
          [fill |-> 14, rank |-> 0, question |-> FALSE,
           signals |-> {"mail", "bank", "secret", "reply"}],
          [fill |-> 7, rank |-> 0, question |-> FALSE,
           signals |-> {"currency", "split"}]}

\* the characters of each sentence explored
SentenceTexts == [sentence \in SentenceInputs |-> SentenceChars(sentence)]

\* the characters of a sentence
SentenceText(sentence) == SentenceTexts[sentence]

\* the values of max_chars with which the summarizer shrinks a sentence
\* (lines 3881, 3902, 3910, 3750, 4004, 4009)
SentenceCuts == {88, 92, 110, 128, 130, 170}

\* _shrink_clause of each sentence explored, worked out once
ShrunkSentences ==
    [sentence \in SentenceInputs |->
       [max_chars \in SentenceCuts |->
          [add_ellipsis \in BOOLEAN |->
             ShrinkClause(SentenceTexts[sentence], max_chars, add_ellipsis)]]]

\* _shrink_clause(sentence, max_chars, add_ellipsis)
ShrinkSentence(sentence, max_chars, add_ellipsis) ==
    ShrunkSentences[sentence][max_chars][add_ellipsis]

\* len(source): source is _prepare_summary_text(text), the sentences with a
\* space between them (line 3892)
SourceLen(text) ==
    JoinedChars([i \in 1..Len(text.sentences) |->
                   Len(SentenceText(text.sentences[i]))])

\* the signals the text shows
ScamSignals(text) ==
    UNION {text.sentences[i].signals : i \in 1..Len(text.sentences)}

\* _is_probable_financial_scam_text (lines 3674-3691): three of the flags
\* of lines 3679-3690. The flag of the e-mail address is searched in
\* normalize_fa_text(text), where every "." is a space (line 2482), and is
\* never set.
IsProbableFinancialScamText(text) ==
    Cardinality(ScamSignals(text) \ {"mail"}) >= 3

\* _extract_sensitive_facts (lines 3651-3671), as the lengths of its lines:
\* the e-mail line, the amounts line, the line on a sensitive subject
SensitiveFacts(text) ==
    (IF "mail" \in ScamSignals(text) THEN <<12 + MailChars>> ELSE <<>>)
    \o (IF "currency" \in ScamSignals(text) THEN <<14 + AmountChars>> ELSE <<>>)
    \o (IF ScamSignals(text) \cap {"bank", "secret", "split"} # {}
        THEN <<45>> ELSE <<>>)

\* len(_build_scam_focused_summary(source, sensitive_facts))
\* (lines 3694-3724): the fixed lines, the contact and the amount when the
\* text has them, and the first two facts
ScamSummaryChars(text) ==
    356
    + (IF "mail" \in ScamSignals(text) THEN 21 + MailChars ELSE 0)
    + (IF "currency" \in ScamSignals(text) THEN 16 + AmountChars ELSE 0)
    + (IF Len(SensitiveFacts(text)) >= 1 THEN 18 + SensitiveFacts(text)[1] ELSE 0)
    + (IF Len(SensitiveFacts(text)) >= 2 THEN 3 + SensitiveFacts(text)[2] ELSE 0)

\* the sentences that name a place ("first place", ...), line 3746
RankedSentences(text) ==
    {i \in 1..Len(text.sentences) : text.sentences[i].rank > 0}

\* _extract_ranked_points (lines 3741-3759), as the lengths of the points:
\* the sentences that name a place, by place and then by position, the
\* first three; no two sentences of a text are as alike as 0.88
RankedPoints(text) ==
    LET ranked == RankedSentences(text)
        before(i, j) == \/ text.sentences[i].rank < text.sentences[j].rank
                        \/ /\ text.sentences[i].rank = text.sentences[j].rank
                           /\ i < j
        nth(n) == CHOOSE i \in ranked :
                     Cardinality({j \in ranked : before(j, i)}) = n - 1
    IN  [n \in 1..Min(3, Cardinality(ranked)) |->
           Len(ShrinkSentence(text.sentences[nth(n)], 128, FALSE))]

\* the sentences the intro of lines 3908-3911 can come from
IntroCandidates(text) ==
    {i \in 1..Min(8, Len(text.sentences)) :
        text.sentences[i].question /\ Len(SentenceText(text.sentences[i])) - 1 >= 20}

RECURSIVE PopToBudget(_, _)
\* the loop of lines 3923-3924
PopToBudget(lns, budget) ==
    IF Len(lns) > 6 /\ JoinedChars(lns) > budget
    THEN PopToBudget(SubSeq(lns, 1, Len(lns) - 1), budget)
    ELSE lns

\* the body of the ranked-list path (lines 3904-3926)
RankedSummaryChars(text) ==
    LET ranked_points == RankedPoints(text)
        intro == IF IntroCandidates(text) = {} THEN <<>>
                 ELSE LET i == CHOOSE j \in IntroCandidates(text) :
                                   \A k \in IntroCandidates(text) : j <= k
                      IN  <<12 + Len(ShrinkSentence(text.sentences[i], 110, FALSE))>>
        lns == <<7, 90, 0, 12>> \o intro
               \o [n \in 1..Len(ranked_points) |-> 2 + ranked_points[n]]
        budget == Max(170, (56 * SourceLen(text)) \div 100)
    IN  JoinedChars(PopToBudget(lns, budget))

\* SUMMARIZER_TARGET_RATIO, in percent (its default)
SUMMARIZER_TARGET_RATIO == 18

\* SUMMARIZER_MIN_TARGET_CHARS (its default)
SUMMARIZER_MIN_TARGET_CHARS == 150

\* SUMMARIZER_MAX_TARGET_CHARS (its default)
SUMMARIZER_MAX_TARGET_CHARS == 360

\* target_chars of lines 3975-3976
TargetChars(text) ==
    Clamp((SUMMARIZER_TARGET_RATIO * SourceLen(text)) \div 100,
          SUMMARIZER_MIN_TARGET_CHARS, SUMMARIZER_MAX_TARGET_CHARS)

\* keep_n of lines 3969-3973, with max_sentences = 5
KeepN(text) == IF Len(text.sentences) >= 8 THEN 4 ELSE 3

\* The orders in which the loop of _choose_summary_indexes can take the
\* sentences of a text of n sentences: the scores of lines 3928-3967 and
\* the similarities of line 3874 are not modelled, the text says which
\* sentences they put first. The loop takes three sentences at most.
PickOrders(n) ==
    {order \in [1..Min(n, 3) -> 1..n] :
        \A i, j \in 1..Min(n, 3) : i # j => order[i] # order[j]}

RECURSIVE ChooseSummaryIndexes(_, _, _, _, _, _)
\* _choose_summary_indexes (lines 3854-3888): sentences are taken in order
\* up to keep_cap; from the third on, one that goes over target_chars stops
\* the loop
ChooseSummaryIndexes(text, order, selected, consumed, target_chars, keep_cap) ==
    IF order = <<>> \/ Cardinality(selected) >= keep_cap THEN selected
    ELSE LET est_len == Len(ShrinkSentence(text.sentences[Head(order)], 130, TRUE)) + 1
         IN  IF consumed + est_len > target_chars /\ Cardinality(selected) >= 2
             THEN selected
             ELSE ChooseSummaryIndexes(text, Tail(order),
                                       selected \cup {Head(order)},
                                       consumed + est_len, target_chars, keep_cap)

\* _sentence_signal_score (lines 3629-3648): the words of the signals
\* "bank", "secret", "split" and "currency" are priority keywords, the one of
\* "reply" is a request keyword, and no sentence has a number of four digits
\* or fewer, or a link
SentenceSignalScore(sentence) ==
    Max(0, Min(3000, 700 * Cardinality(sentence.signals
                                        \cap {"bank", "secret", "split", "currency"}))
           + Min(2400, 800 * Cardinality(sentence.signals \cap {"reply"}))
           + (IF sentence.question THEN 800 ELSE 0)
           + (IF "mail" \in sentence.signals THEN 2200 ELSE 0)
           + (IF "bank" \in sentence.signals THEN 1000 ELSE 0)
           - (IF Len(SentenceText(sentence)) > 180 THEN 600 ELSE 0))

\* idx is added when it is not there and there is room (lines 3987-3988)
AddIfRoom(ordered_idx, idx, keep_n) ==
    IF idx \notin ordered_idx /\ Cardinality(ordered_idx) < keep_n
    THEN ordered_idx \cup {idx} ELSE ordered_idx

\* ordered_idx of lines 3977-4002: the chosen sentences, then the first two
\* list-like sentences, a question when none was chosen, and the sentence of
\* the highest signal score when it reaches 0.22
OrderedIdx(text) ==
    LET n == Len(text.sentences)
        keep_n == KeepN(text)
        chosen == ChooseSummaryIndexes(text, text.order, {}, 0,
                                       TargetChars(text), keep_n)
        list_like == Ascending({i \in 1..n : text.sentences[i].rank > 0})
        with1 == IF Len(list_like) >= 1 THEN AddIfRoom(chosen, list_like[1], keep_n)
                 ELSE chosen
        with2 == IF Len(list_like) >= 2 THEN AddIfRoom(with1, list_like[2], keep_n)
                 ELSE with1
        question_like == Ascending({i \in 1..n : text.sentences[i].question})
        with3 == IF Len(question_like) >= 1
                    /\ \A i \in 1..Len(question_like) : question_like[i] \notin with2
                 THEN AddIfRoom(with2, question_like[1], keep_n) ELSE with2
        top_signal == CHOOSE i \in 1..n :
                        \A j \in 1..n :
                            \/ SentenceSignalScore(text.sentences[j])
                                 < SentenceSignalScore(text.sentences[i])
                            \/ /\ SentenceSignalScore(text.sentences[j])
                                    = SentenceSignalScore(text.sentences[i])
                               /\ i <= j
    IN  Ascending(IF SentenceSignalScore(text.sentences[top_signal]) >= 2200
                  THEN AddIfRoom(with3, top_signal, keep_n) ELSE with3)

\* summary of lines 4004-4006
SummaryOf(text, idx) ==
    LET summary_chunks == [i \in 1..Min(3, Len(idx)) |->
                             ShrinkSentence(text.sentences[idx[i]], 92, TRUE)]
        joined == JoinWords(summary_chunks)
    IN  RStrip(SubSeq(joined, 1, Min(Len(joined), Max(160, TargetChars(text) + 28))),
               {Space})

\* points of lines 4008-4009, as lengths (max_points = 5); with two
\* sentences or more there are two points, and lines 4010-4016 add none
SummaryPoints(text, idx) ==
    [i \in 1..Min(3, Len(idx)) |->
           Len(ShrinkSentence(text.sentences[idx[i]], 88, TRUE))]

\* The first five words of the sentence at a position, as
\* _sentence_tokens gives them (lines 3621-3626): the opening words without
\* their marks, then words of four letters. The words of the signals and
\* of the places are the same in every sentence, the other words of a text
\* are all different.
OpeningTokens(sentence, at) ==
    LET named ==
          (IF sentence.rank > 0
           THEN <<[word |-> <<"other", 10 * at>>, chars |-> 4],
                  [word |-> <<"place", 0>>, chars |-> 4],
                  [word |-> <<"ordinal", sentence.rank>>, chars |-> 3]>>
           ELSE <<>>)
          \o (IF "bank" \in sentence.signals
              THEN <<[word |-> <<"bank", 0>>, chars |-> 4]>> ELSE <<>>)
          \o (IF "secret" \in sentence.signals
              THEN <<[word |-> <<"secret", 0>>, chars |-> 7]>> ELSE <<>>)
          \o (IF "reply" \in sentence.signals
              THEN <<[word |-> <<"reply", 0>>, chars |-> 4]>> ELSE <<>>)
          \o (IF "split" \in sentence.signals
              THEN <<[word |-> <<"split", 0>>, chars |-> 5]>> ELSE <<>>)
          \o (IF "currency" \in sentence.signals
              THEN <<[word |-> <<"digits", 0>>, chars |-> 7],
                     [word |-> <<"dollars", 0>>, chars |-> 4]>>
              ELSE <<>>)
        others == [i \in 1..5 |-> [word |-> <<"other", 10 * at + i>>, chars |-> 4]]
    IN  SubSeq(named \o others, 1, 5)

RECURSIVE SelectedTokens(_, _)
\* the opening words of the sentences at idx, in that order
SelectedTokens(text, idx) ==
    IF idx = <<>> THEN <<>>
    ELSE OpeningTokens(text.sentences[Head(idx)], Head(idx))
         \o SelectedTokens(text, Tail(idx))

\* key_terms of lines 4017-4024, as lengths: the five most common words of
\* the sentences selected (no more than three), in the order in which they
\* come when as common. A word that two of the sentences that reach this
\* line share is among their first five.
KeyTerms(text, idx) ==
    LET all == SelectedTokens(text, idx)
        words == [p \in 1..Len(all) |-> all[p].word]
        count == [p \in 1..Len(all) |->
                    Cardinality({q \in 1..Len(all) : words[q] = words[p]})]
        firsts == {p \in 1..Len(all) : \A q \in 1..(p - 1) : words[q] # words[p]}
        common(c) == LET at == Ascending({p \in firsts : count[p] = c})
                     IN  [n \in 1..Len(at) |-> all[at[n]].chars]
        most_common == common(3) \o common(2) \o common(1)
    IN  SubSeq(most_common, 1, Min(5, Len(most_common)))

\* _dedupe_summary_points (lines 3727-3738): _text_similarity is not
\* modelled, the text says whether its first point repeats the summary
DedupeSummaryPoints(text, pts) ==
    IF text.first_point_repeats /\ pts # <<>> THEN Tail(pts) ELSE pts

\* compact_mode of line 3769
CompactMode(text) == SourceLen(text) < 720 /\ SensitiveFacts(text) = <<>>

\* points of lines 3770-3771
RenderPoints(text, points) ==
    LET pts == DedupeSummaryPoints(text, points)
    IN  SubSeq(pts, 1, Min(Len(pts), IF CompactMode(text) THEN 2 ELSE 3))

\* show_keywords of line 3772
ShowKeywords(text, terms) ==
    terms # <<>> /\ ~CompactMode(text) /\ SourceLen(text) >= 900

\* budget of lines 3775-3777
RenderBudget(text) ==
    IF SourceLen(text) < 360 THEN Max(110, (60 * SourceLen(text)) \div 100)
    ELSE Max(140, SourceLen(text) \div 2)

\* len(body) of lines 3780-3789
RenderBody(text, summary_chars, pts, terms, keywords) ==
    JoinedChars(<<7, summary_chars>>
      \o (IF pts # <<>>
          THEN <<0, 12>> \o [i \in 1..Len(pts) |-> 2 + pts[i]] ELSE <<>>)
      \o (IF SensitiveFacts(text) # <<>>
          THEN <<0, 13>> \o [i \in 1..Min(3, Len(SensitiveFacts(text))) |->
                               2 + SensitiveFacts(text)[i]]
          ELSE <<>>)
      \o (IF keywords /\ terms # <<>>
          THEN <<0, 15 + SumSeq(terms) + 3 * (Len(terms) - 1)>>
          ELSE <<>>))

\* tighter of line 3800
Tighter(budget) == Max(80, Min(170, (48 * budget) \div 100))

\* the path _extractive_summary_local takes with more than one sentence:
\* the scam test comes after the returns of lines 3901-3903 and 3926
\* (lines 4026-4027)
PathOf(text) ==
    IF Len(text.sentences) = 1 THEN "single"
    ELSE IF Len(RankedPoints(text)) >= 2 THEN "ranked"
    ELSE IF IsProbableFinancialScamText(text) THEN "scam"
    ELSE "render"

\* most sentences of a short text explored
MaxSentences == 2

\* the lists of up to n sentences
SentenceLists(n) ==
    UNION {[1..k -> SentenceInputs] : k \in 1..n}

\* four plain sentences of 46 words: what makes a text a long one
LongTail ==
    [i \in 1..4 |-> [fill |-> 45, rank |-> 0, question |-> FALSE, signals |-> {}]]

\* a sentence on the first place and one on the second: what makes a text
\* a ranked list
RankedTail ==
    [i \in 1..2 |-> [fill |-> 6, rank |-> i, question |-> FALSE, signals |-> {}]]

\* the texts explored: the short ones, and one or two sentences followed by
\* LongTail or by RankedTail
SummaryTexts ==
    UNION {{[sentences |-> ss, order |-> o, first_point_repeats |-> d] :
               o \in PickOrders(Len(ss)), d \in BOOLEAN} :
           ss \in SentenceLists(MaxSentences)
                    \cup {lead \o LongTail : lead \in SentenceLists(2)}
                    \cup {lead \o RankedTail : lead \in SentenceLists(2)}}

\* the variables the summarizer leaves alone
NotSummaryVars ==
    <<scoreVars, claim_neg, retrievalVars, reportVars, channelVars, refreshVars,
      indexVars, cacheVars, helperVars>>

InitSummary ==
    /\ ScoreIdle
    /\ ReportIdle
    /\ claim_neg = FALSE
    /\ RetrievalIdle
    /\ ServiceIdle

\* _extractive_summary_local(text) up to its return or to the call of
\* _render_summary_sections (lines 3891-4034)
Summarize ==
    /\ spc = "idle"
    /\ \E text \in SummaryTexts :
         /\ sum_source' = text
         /\ CASE PathOf(text) = "single" ->
                   /\ spc' = "done"
                   /\ sum_body' = [path |-> "single", chars |->
                        25 + 2 * Len(ShrinkSentence(text.sentences[1], 170, TRUE))]
                   /\ UNCHANGED <<sum_summary, sum_points, key_terms, show_keywords>>
              [] PathOf(text) = "ranked" ->
                   /\ spc' = "done"
                   /\ sum_body' = [path |-> "ranked", chars |-> RankedSummaryChars(text)]
                   /\ UNCHANGED <<sum_summary, sum_points, key_terms, show_keywords>>
              [] PathOf(text) = "scam" ->
                   /\ spc' = "done"
                   /\ sum_body' = [path |-> "scam", chars |-> ScamSummaryChars(text)]
                   /\ UNCHANGED <<sum_summary, sum_points, key_terms, show_keywords>>
              [] OTHER ->
                   LET ordered_idx == OrderedIdx(text)
                       terms == KeyTerms(text, ordered_idx)
                   IN  /\ spc' = "rendering"
                       /\ sum_summary' = SummaryOf(text, ordered_idx)
                       /\ sum_points' =
                            RenderPoints(text, SummaryPoints(text, ordered_idx))
                       /\ key_terms' = terms
                       /\ show_keywords' = ShowKeywords(text, terms)
                       /\ UNCHANGED sum_body
    /\ UNCHANGED NotSummaryVars

\* len(body) at the top of the loop of line 3779
BodyNow ==
    RenderBody(sum_source, Len(sum_summary), sum_points, key_terms, show_keywords)

\* lines 3790-3791: the body fits the budget and is returned
ReturnBody ==
    /\ spc = "rendering"
    /\ BodyNow <= RenderBudget(sum_source)
    /\ spc' = "done"
    /\ sum_body' = [path |-> "render", chars |-> BodyNow]
    /\ UNCHANGED <<sum_source, sum_summary, sum_points, key_terms, show_keywords,
                   NotSummaryVars>>

\* lines 3793-3795: the keywords go first
DropKeywords ==
    /\ spc = "rendering"
    /\ BodyNow > RenderBudget(sum_source)
    /\ show_keywords
    /\ show_keywords' = FALSE
    /\ UNCHANGED <<sum_source, spc, sum_summary, sum_points, key_terms, sum_body,
                   NotSummaryVars>>

\* lines 3796-3798: then the last point, down to one
DropPoint ==
    /\ spc = "rendering"
    /\ BodyNow > RenderBudget(sum_source)
    /\ ~show_keywords
    /\ Len(sum_points) > 1
    /\ sum_points' = SubSeq(sum_points, 1, Len(sum_points) - 1)
    /\ UNCHANGED <<sum_source, spc, sum_summary, key_terms, show_keywords,
                   sum_body,
                   NotSummaryVars>>

\* lines 3800-3805, the summary gets shorter and the loop goes on
ShrinkSummary ==
    /\ spc = "rendering"
    /\ BodyNow > RenderBudget(sum_source)
    /\ ~show_keywords
    /\ Len(sum_points) <= 1
    /\ ShrinkClause(sum_summary, Tighter(RenderBudget(sum_source)), TRUE) # sum_summary
    /\ sum_summary' = ShrinkClause(sum_summary, Tighter(RenderBudget(sum_source)), TRUE)
    /\ UNCHANGED <<sum_source, spc, sum_points, key_terms, show_keywords,
                   sum_body,
                   NotSummaryVars>>

\* lines 3802-3804: the summary cannot get shorter, the header and the
\* summary alone are returned
ReturnSafe ==
    /\ spc = "rendering"
    /\ BodyNow > RenderBudget(sum_source)
    /\ ~show_keywords
    /\ Len(sum_points) <= 1
    /\ ShrinkClause(sum_summary, Tighter(RenderBudget(sum_source)), TRUE) = sum_summary
    /\ spc' = "done"
    /\ sum_body' = [path |-> "render_safe", chars |->
         8 + Len(ShrinkClause(sum_summary,
                              Max(72, Min(150, (55 * RenderBudget(sum_source)) \div 100)),
                              TRUE))]
    /\ UNCHANGED <<sum_source, sum_summary, sum_points, key_terms, show_keywords,
                   NotSummaryVars>>

NextSummary ==
    \/ Summarize
    \/ ReturnBody
    \/ DropKeywords
    \/ DropPoint
    \/ ShrinkSummary
    \/ ReturnSafe

\* the loop of _render_summary_sections runs on until it returns
SpecSummary ==
    InitSummary /\ [][NextSummary]_vars
    /\ WF_vars(ReturnBody \/ DropKeywords \/ DropPoint \/ ShrinkSummary \/ ReturnSafe)

-----------------------------------------------------------------------------
(* _score_factcheck on the evidence lists of the end-to-end scenarios: one
   item of any label, and two supporting items against a refuting one *)

\* an evidence item of a publisher and tier field, with its relevance, its
\* age in days and _contains_negation of its text
ScenarioItem(publisher, relevance, age_days, neg_item) ==
    [source |-> publisher[1], source_tier |-> publisher[2],
     relevance |-> relevance, published_ts |-> NowDays - age_days,
     fetched_at |-> NowDays, neg |-> neg_item]

\* the ai_labels entries of the scenarios: none, or any label with a
\* confidence of 0%, 50% or 100% (line 1830)
ScenarioAiLabels ==
    {NoAi} \cup [label : Labels, confidence : {0, 5000, 10000}]

\* the single items explored, each with its ai_labels entry: a publisher
\* without tier hint on a medium and on a low feed, a publisher hinted
\* medium and one hinted high, and no publisher name; relevance from 0 to
\* 1, at and just under the thresholds of _heuristic_label; published today,
\* 14, 121 or 400 days ago
SingleItems ==
    {<<ScenarioItem(p, r, a, n), ai>> :
        p \in {<<"blog", "medium">>, <<"blog", "low">>, <<"tabnak", "low">>,
               <<"reuters", "medium">>, <<"", "medium">>},
        r \in {0, 1200, 1399, 1400, 2399, 2400, 4999, 5000, 10000},
        a \in {0, 14, 121, 400},
        n \in BOOLEAN,
        ai \in ScenarioAiLabels}

\* the supporting items explored: a publisher hinted high or a feed of the
\* high tier, relevance 0.5 or 1, published today, 14 or 120 days ago,
\* labelled by _heuristic_label or by the AI with confidence 0%
SupportItems(neg_claim) ==
    {<<ScenarioItem(p, r, a, neg_claim), ai>> :
        p \in {<<"reuters", "low">>, <<"", "high">>},
        r \in {5000, 10000},
        a \in {0, 14, FACTCHECK_RECENT_DAYS},
        ai \in {NoAi, [label |-> "support", confidence |-> 0]}}

\* the refuting items explored: a low feed with and without publisher name,
\* relevance 0.5 or 1, published 121 or 400 days ago, labelled by
\* _heuristic_label
RefuteItems(neg_claim) ==
    {<<ScenarioItem(p, r, a, ~neg_claim), NoAi>> :
        p \in {<<"blog", "low">>, <<"", "low">>},
        r \in {5000, 10000},
        a \in {FACTCHECK_RECENT_DAYS + 1, 400}}

\* the evidence lists explored: one item, or two supporting items and a
\* refuting one in any order
ScenarioLists(neg_claim) ==
    {<<one>> : one \in SingleItems}
    \cup UNION {{<<s1, s2, r>>, <<s1, r, s2>>, <<r, s1, s2>>} :
                  s1 \in SupportItems(neg_claim), s2 \in SupportItems(neg_claim),
                  r \in RefuteItems(neg_claim)}

InitScenario == InitScore

\* scored = _score_factcheck(claim, items, ai_labels) on a list of the
\* scenarios
ScoreScenario ==
    /\ scored = NoResult
    /\ \E list \in ScenarioLists(claim_neg) :
         /\ items' = [i \in 1..Len(list) |-> list[i][1]]
         /\ ai_labels' = [i \in 1..Len(list) |-> list[i][2]]
         /\ scored' = ScoreFactcheck(claim_neg,
                                     [i \in 1..Len(list) |-> list[i][1]],
                                     [i \in 1..Len(list) |-> list[i][2]], NowDays)
    /\ UNCHANGED <<ai_web, web_reply, returned_web, blended, claim_neg,
                   NotScoreVars>>

NextScenario == ScoreScenario

SpecScenario == InitScenario /\ [][NextScenario]_vars

-----------------------------------------------------------------------------
(* The similarity engine: normalize_fa_text, _tokenize_fact_text and
   _text_similarity with difflib's SequenceMatcher, on texts of two letters,
   the space and the full stop *)

\* a second letter
OtherLetter == "b"

\* the longest text explored, in characters
MaxChars == 4

RECURSIVE TextsOfLen(_)
\* the texts of n characters
TextsOfLen(n) ==
    IF n = 0 THEN {<<>>}
    ELSE {Append(t, c) : t \in TextsOfLen(n - 1),
                         c \in {Letter, OtherLetter, Space, Stop}}

\* the texts handed to _text_similarity
SimilarityTexts == UNION {TextsOfLen(n) : n \in 0..MaxChars}

RECURSIVE KeepChars(_, _, _)
\* the characters of str at the positions of keep, from position i on
KeepChars(str, keep, i) ==
    IF i > Len(str) THEN <<>>
    ELSE (IF i \in keep THEN <<str[i]>> ELSE <<>>) \o KeepChars(str, keep, i + 1)

\* normalize_fa_text (lines 2479-2484): the full stop becomes a space, runs of
\* spaces become one space and the spaces at both ends go
NormalizeFaText(text) ==
    LET spaced == [i \in 1..Len(text) |->
                      IF text[i] = Stop THEN Space ELSE text[i]]
        keep == {i \in 1..Len(text) :
                    \/ spaced[i] # Space
                    \/ /\ i > 1
                       /\ spaced[i - 1] # Space
                       /\ \E j \in (i + 1)..Len(text) : spaced[j] # Space}
    IN  KeepChars(spaced, keep, 1)

\* set(_tokenize_fact_text(text)) (line 1639): the runs of two or more
\* letters of the normalized text
TokenSet(norm) ==
    {SubSeq(norm, i, j) : <<i, j>> \in
        {w \in (1..Len(norm)) \X (1..Len(norm)) :
            /\ w[1] < w[2]
            /\ \A k \in w[1]..w[2] : norm[k] # Space
            /\ (w[1] = 1 \/ norm[w[1] - 1] = Space)
            /\ (w[2] = Len(norm) \/ norm[w[2] + 1] = Space)}}

\* SequenceMatcher.find_longest_match(alo, ahi, blo, bhi) without junk: the
\* longest block a[i:i+k] = b[j:j+k] in the two ranges, of those the one that
\* starts earliest in a, and of those the one that starts earliest in b;
\* positions count from 0 and the ranges are half open, as in difflib
FindLongestMatch(a, b, alo, ahi, blo, bhi) ==
    LET blocks == {m \in (alo..(ahi - 1)) \X (blo..(bhi - 1)) \X (1..(ahi - alo)) :
                      /\ m[1] + m[3] <= ahi
                      /\ m[2] + m[3] <= bhi
                      /\ \A d \in 0..(m[3] - 1) : a[m[1] + d + 1] = b[m[2] + d + 1]}
    IN  IF blocks = {} THEN <<alo, blo, 0>>
        ELSE LET longest == {m \in blocks : \A o \in blocks : o[3] <= m[3]}
                 first_a == {m \in longest : \A o \in longest : m[1] <= o[1]}
             IN  CHOOSE m \in first_a : \A o \in first_a : m[2] <= o[2]

RECURSIVE MatchedChars(_, _, _, _, _, _)
\* the sum of the sizes of SequenceMatcher.get_matching_blocks(): the longest
\* match of the ranges, then the same to its left and to its right
MatchedChars(a, b, alo, ahi, blo, bhi) ==
    LET m == FindLongestMatch(a, b, alo, ahi, blo, bhi)
    IN  IF m[3] = 0 THEN 0
        ELSE m[3]
             + (IF alo < m[1] /\ blo < m[2]
                THEN MatchedChars(a, b, alo, m[1], blo, m[2]) ELSE 0)
             + (IF m[1] + m[3] < ahi /\ m[2] + m[3] < bhi
                THEN MatchedChars(a, b, m[1] + m[3], ahi, m[2] + m[3], bhi) ELSE 0)

\* SequenceMatcher(None, a, b).ratio(): 2.0 * matches / (len(a) + len(b))
SequenceRatio(a, b) ==
    IF Len(a) + Len(b) = 0 THEN Scale
    ELSE RoundDiv(2 * MatchedChars(a, b, 0, Len(a), 0, Len(b)) * Scale,
                  Len(a) + Len(b))

\* part in whole, for strings
IsSubstring(part, whole) ==
    \E i \in 0..(Len(whole) - Len(part)) :
        SubSeq(whole, i + 1, i + Len(part)) = part

\* _text_similarity(a, b) (lines 1659-1673)
TextSimilarity(a, b) ==
    LET left == NormalizeFaText(a)
        right == NormalizeFaText(b)
        left_set == TokenSet(left)
        right_set == TokenSet(right)
        ratio == SequenceRatio(left, right)
        jaccard == RoundDiv(Cardinality(left_set \cap right_set) * Scale,
                            Cardinality(left_set \cup right_set))
        contains == IF IsSubstring(left, right) \/ IsSubstring(right, left)
                    THEN Scale ELSE 0
    IN  IF left = <<>> \/ right = <<>> THEN 0
        ELSE IF left_set = {} \/ right_set = {} THEN ratio
        ELSE RoundDiv(52 * ratio + 38 * jaccard + 10 * contains, 100)

\* the variables the similarity engine leaves alone
NotSimilarityVars ==
    <<scoreVars, claim_neg, retrievalVars, reportVars, channelVars, refreshVars,
      indexVars, cacheVars, summaryVars, batchVars, storeVars, quotaVars>>

InitSimilarity ==
    /\ ScoreIdle
    /\ ReportIdle
    /\ claim_neg = FALSE
    /\ RetrievalIdle
    /\ ServiceIdle

\* a call _text_similarity(a, b)
CompareTexts ==
    /\ similarity = NoValue
    /\ \E a \in SimilarityTexts, b \in SimilarityTexts :
         /\ sim_left' = a
         /\ sim_right' = b
         /\ similarity' = TextSimilarity(a, b)
    /\ UNCHANGED NotSimilarityVars

NextSimilarity == CompareTexts

SpecSimilarity == InitSimilarity /\ [][NextSimilarity]_vars

-----------------------------------------------------------------------------
(* The ranking of run_news_factcheck on pools of candidates of several ages *)

\* the pools explored: up to three rows of distinct links, each the close or
\* the loose story, undated or published 100, 121 or 400 days ago
RankingItems(link) ==
    {[link |-> link, title |-> t, summary |-> "",
      source |-> SourceOfLink(link),
      source_tier |-> InferSourceTier(SourceOfLink(link), "medium"),
      published_ts |-> ts, fetched_at |-> NowDays] :
        t \in {"xa", "xlong"},
        ts \in {0, NowDays - 100, NowDays - (FACTCHECK_RECENT_DAYS + 1),
                NowDays - 400}}

RankingPools ==
    {<<r1>> : r1 \in RankingItems("u1")}
    \cup {<<r1, r2>> : r1 \in RankingItems("u1"), r2 \in RankingItems("u2")}
    \cup {<<r1, r2, r3>> : r1 \in RankingItems("u1"), r2 \in RankingItems("u2"),
                           r3 \in RankingItems("u3")}

InitRanking == InitRetrieval

\* db_search_news_candidates returns a pool and the run ranks and scores it
\* (lines 2155-2233)
RankCandidates ==
    /\ factcheck = NoRun
    /\ local_candidates = <<>>
    /\ \E pool \in RankingPools :
         /\ local_candidates' = pool
         /\ factcheck' = Factcheck(<<>>, <<>>, pool, claim_neg, NowDays)
    /\ UNCHANGED <<fetched_rss, fetched_live, NotRetrievalVars>>

NextRanking == RankCandidates

SpecRanking == InitRanking /\ [][NextRanking]_vars

-----------------------------------------------------------------------------
(* Claims about the scorer and the blender, checked under SpecScore *)

\* the AI web verdict was blended in (it cites at least 2 sources)
WasBlended == blended # NoResult /\ ai_web.sources >= 2

\* C1 as stated: every scored result, the scorer's and the blender's alike,
\* has 0.03 <= truth_prob <= 0.97 and 0.10 <= confidence <= 0.97.
C1_AllResultsWithinScorerBounds ==
    /\ scored # NoResult =>
         /\ 300 <= scored.truth_prob /\ scored.truth_prob <= 9700
         /\ 1000 <= scored.confidence /\ scored.confidence <= 9700
    /\ blended # NoResult =>
         /\ 300 <= blended.truth_prob /\ blended.truth_prob <= 9700
         /\ 1000 <= blended.confidence /\ blended.confidence <= 9700

\* C1 amended: the scorer's result (the zero-evidence result included) has
\* 0.03 <= truth_prob <= 0.97 and 0.10 <= confidence <= 0.97; a result the AI
\* web verdict was blended into has 0.02 <= truth_prob <= 0.98 and
\* 0.10 <= confidence <= 0.98.
C1_ScoreAndBlendBounds ==
    /\ scored # NoResult =>
         /\ 300 <= scored.truth_prob /\ scored.truth_prob <= 9700
         /\ 1000 <= scored.confidence /\ scored.confidence <= 9700
    /\ blended # NoResult =>
         /\ 200 <= blended.truth_prob /\ blended.truth_prob <= 9800
         /\ 1000 <= blended.confidence /\ blended.confidence <= 9800

\* C1 witness: a blended result whose truth_prob the blend took below the
\* scorer's floor of 0.03
C1_Witness == WasBlended /\ blended.truth_prob < 300 /\ scored.truth_prob >= 300

\* C2: in every scored result, the scorer's, the zero-evidence one and the
\* blended one, truth_prob + fake_prob = 1.
C2_Complementary ==
    /\ scored # NoResult => scored.truth_prob + scored.fake_prob = Scale
    /\ blended # NoResult => blended.truth_prob + blended.fake_prob = Scale

\* C2 witness: a blend that changed the truth probability of a scored list
C2_Witness ==
    /\ WasBlended
    /\ items # <<>>
    /\ blended.truth_prob # scored.truth_prob

\* C3: scoring an empty evidence list yields the fixed neutral result,
\* verdict uncertain, truth_prob = fake_prob = 0.5, confidence = 0.15, all
\* counts 0, score_reason no_evidence, whatever the claim.
C3_ZeroEvidenceNeutral ==
    (scored # NoResult /\ items = <<>>) =>
        /\ scored.verdict = VerdictUncertain
        /\ scored.truth_prob = 5000
        /\ scored.fake_prob = 5000
        /\ scored.confidence = 1500
        /\ scored.evidence = <<>>
        /\ scored.support_count = 0
        /\ scored.refute_count = 0
        /\ scored.related_count = 0
        /\ scored.source_count = 0
        /\ scored.score_reason = "no_evidence"

\* C3 witness: an empty list was scored for a claim that contains a negation
C3_Witness == scored # NoResult /\ items = <<>> /\ claim_neg

\* the thresholding rule as C4 states it
C4_Rule(truth_prob, confidence, verdict) ==
    /\ confidence < 4500 => verdict = VerdictUncertain
    /\ confidence >= 4500 =>
         /\ verdict = VerdictTrue <=> truth_prob >= 6500
         /\ verdict = VerdictFalse <=> truth_prob <= 3500
         /\ verdict = VerdictReview <=> (truth_prob > 3500 /\ truth_prob < 6500)

\* C4: the verdict stored in a result, the scorer's or the blender's, is the
\* one the thresholding rule gives for the truth_prob and confidence stored
\* in the same result.
C4_VerdictAgrees ==
    /\ scored # NoResult =>
         C4_Rule(scored.truth_prob, scored.confidence, scored.verdict)
    /\ blended # NoResult =>
         C4_Rule(blended.truth_prob, blended.confidence, blended.verdict)

\* C4 witness: the blend raised an uncertain result over the confidence
\* threshold and the verdict followed
C4_Witness ==
    /\ WasBlended
    /\ scored.verdict = VerdictUncertain
    /\ blended.verdict \in {VerdictTrue, VerdictFalse, VerdictReview}

-----------------------------------------------------------------------------
(* Claims about the merge and the ranking, checked under SpecRetrieval *)

\* the arrivals the merge keeps, normalised
KeptArrivals(arr) ==
    {NormalizeItem(arr[i]) : i \in {j \in 1..Len(arr) : MergeKeeps(NormalizeItem(arr[j]))}}

\* merged is a deduplication of arr that keeps, for every key, a version no
\* other version of the key beats on (timestamp, text length)
C5_MergedFrom(merged, arr) ==
    /\ \A i, j \in 1..Len(merged) :
         NewsKey(merged[i]) = NewsKey(merged[j]) => i = j
    /\ \A i \in 1..Len(merged) : merged[i] \in KeptArrivals(arr)
    /\ \A r \in KeptArrivals(arr) :
         \E i \in 1..Len(merged) :
            /\ NewsKey(merged[i]) = NewsKey(r)
            /\ NewsItemTimestamp(merged[i]) >= NewsItemTimestamp(r)
            /\ NewsItemTimestamp(merged[i]) = NewsItemTimestamp(r)
                 => ItemTextLen(merged[i]) >= ItemTextLen(r)

\* C5: the merge returns at most one item per dedup key, and the item kept
\* for a key is the version with the most recent timestamp, ties broken by
\* the longer title + summary.
C5_MergeDedup ==
    factcheck # NoRun =>
        /\ C5_MergedFrom(factcheck.fetched_combined, fetched_rss \o fetched_live)
        /\ C5_MergedFrom(factcheck.candidate_pool, Arrivals)

\* C5 witness: the same link arrived twice, the older version first, and the
\* pool holds the later version alone
C5_Witness ==
    /\ factcheck # NoRun
    /\ Len(Arrivals) = 2
    /\ NewsKey(Arrivals[1]) = NewsKey(Arrivals[2])
    /\ NewsItemTimestamp(Arrivals[2]) > NewsItemTimestamp(Arrivals[1])
    /\ factcheck.candidate_pool = <<NormalizeItem(Arrivals[2])>>

\* the arrival orders of the same items
ArrivalOrders(arr) ==
    {[i \in 1..Len(arr) |-> arr[f[i]]] : f \in Permutations(1..Len(arr))}

\* the elements of a sequence
Range(seq) == {seq[i] : i \in 1..Len(seq)}

\* C6: the merged pool, the selected and ranked evidence list and the verdict
\* are the same for every order in which the same items arrive.
C6_ArrivalOrderIrrelevant ==
    factcheck # NoRun =>
        \A order \in ArrivalOrders(Arrivals) :
            LET other == Factcheck(order, <<>>, <<>>, claim_neg, NowDays)
            IN  /\ Range(other.candidate_pool) = Range(factcheck.candidate_pool)
                /\ other.selected = factcheck.selected
                /\ other.scored.verdict = factcheck.scored.verdict

\* C7: every item of the merged pool, and so every item selected and scored,
\* has a non-empty link and a non-empty title.
C7_PoolItemsHaveLinkAndTitle ==
    factcheck # NoRun =>
        /\ \A i \in 1..Len(factcheck.candidate_pool) :
             /\ factcheck.candidate_pool[i].link # ""
             /\ factcheck.candidate_pool[i].title # ""
        /\ \A i \in 1..Len(factcheck.selected) :
             /\ factcheck.selected[i].link # ""
             /\ factcheck.selected[i].title # ""

-----------------------------------------------------------------------------
(* Claims about the report, checked under SpecRender *)

\* C8: a returned report is never longer than 3900 characters, in any mode,
\* with or without AI analysis and AI web sources, and the length guard
\* always comes to its end.
C8_ReportWithinCeiling ==
    /\ [](pc = "done" => OutputLen(report) <= 3900)
    /\ (pc = "guard" ~> pc = "done")

\* C8 witness: a returned report the guard has dropped lines from, whose
\* lines before the guard were longer than 3900 characters
C8_Witness ==
    /\ pc = "done"
    /\ run_result.ok
    /\ OutputLen(ReportLines(run_result)) > 3900
    /\ Len(report) < Len(ReportLines(run_result))
    /\ OutputLen(report) <= 3900

\* C9: the report of a successful result has the verdict line and at least
\* one evidence line, or the no-evidence notice when the evidence list is
\* empty, also after the length guard has dropped lines.
C9_VerdictAndEvidenceKept ==
    (pc = "done" /\ run_result.ok) =>
        /\ HasLine(report, "verdict")
        /\ IF run_result.evidence = <<>>
           THEN HasLine(report, "no_evidence_notice")
           ELSE HasLine(report, "evidence")

\* C9 witness: the report of a run in pro mode with an AI analysis at its
\* cuts, which the guard has shortened and which still shows evidence
C9_Witness ==
    /\ pc = "done"
    /\ run_result.ok
    /\ run_result.ai_reasoning # NoReasoning
    /\ run_result.ai_reasoning.missing = 320
    /\ Len(report) < Len(ReportLines(run_result))
    /\ HasLine(report, "verdict")
    /\ HasLine(report, "evidence")

-----------------------------------------------------------------------------
(* Claims about the entry of a run, checked under SpecRuns *)

\* the kinds of line that carry a verdict or a probability
VerdictKinds == {"verdict", "truth", "fake", "confidence", "web_verdict"}

\* C10: a text that is empty after _normalize_claim_seed makes the run return
\* the error result (ok false, an error message), which no successful result
\* equals, with no index refresh, no fetch and no index write on the way;
\* other texts give a result with ok true; and the report of the error result
\* is the error message alone, with no verdict or probability line.
C10_EmptyInputIsError ==
    /\ [][(pc' = "returned" /\ NormalizeClaimSeed(claim_text') = "") =>
            /\ run_result' = EmptyTextError
            /\ refresh_calls' = refresh_calls
            /\ fetch_calls' = fetch_calls
            /\ index_writes' = index_writes]_vars
    /\ [](pc = "returned" =>
            (run_result.ok <=> NormalizeClaimSeed(claim_text) # ""))
    /\ []((pc = "done" /\ ~run_result.ok) =>
            /\ Len(report) = 1
            /\ report[1].kind = "error"
            /\ ~\E i \in 1..Len(report) : report[i].kind \in VerdictKinds)

\* C10 witness: after a run that refreshed, fetched and wrote, a run on a
\* hashtag alone has returned the error result and its report
C10_Witness ==
    /\ pc = "done"
    /\ claim_text = "#tag"
    /\ run_result = EmptyTextError
    /\ runs = 2
    /\ refresh_calls = 1
    /\ index_writes = 1

-----------------------------------------------------------------------------
(* Claims about the failures of the calls of a run, checked under           *)
(* SpecChannels                                                             *)

\* the network responses of the run
NetworkResponses ==
    {i \in 1..Len(responses) : responses[i].channel \in {"feed", "query", "live"}}

\* the items a response delivered: those of a body that came with a status
\* below 400 and was read, or, for a results page, read until the parser
\* failed
Delivered(r) ==
    IF r.res.kind = "ok" \/ (r.channel = "live" /\ r.res.kind = "malformed")
    THEN r.res.items
    ELSE <<>>

\* the call failed: it delivered nothing and did not succeed
Failed(r) == r.res.kind # "ok" /\ Delivered(r) = <<>>

\* the dedup keys of the items of a list
KeysOf(its) == {NewsKey(NormalizeItem(its[j])) : j \in 1..Len(its)}

\* C11: no failure of a feed pull, a query feed, a live search, an article
\* fetch or an AI call raises into run_news_factcheck; the run returns
\* ok = True with a scored result whose candidate pool holds exactly the
\* stories the answered calls delivered, scored with the heuristic labels
\* when the AI call failed; when every call failed and the index had no
\* match the result is the neutral no-evidence result.
C11_FailuresNeverAbort ==
    /\ ~raised
    /\ factcheck # NoRun =>
         LET ai == responses[Len(responses)].res
             pool == factcheck.candidate_pool
         IN  /\ factcheck.ok
             /\ factcheck.scored.verdict \in
                  {VerdictUncertain, VerdictTrue, VerdictFalse, VerdictReview}
             /\ KeysOf(pool) =
                  UNION {KeysOf(Delivered(responses[i])) : i \in NetworkResponses}
             /\ ~(ai.kind = "ok" /\ ai.json_array) =>
                  factcheck.scored =
                      ScoreFactcheck(claim_neg, factcheck.selected,
                                     [i \in 1..Len(factcheck.selected) |-> NoAi],
                                     NowDays)
             /\ (\A i \in 1..Len(responses) : Failed(responses[i])) =>
                  factcheck.scored = NoEvidenceResult

\* a run that saw an error page with a readable body and a good body, lost
\* its AI call, and still scored the evidence of the good body
C11_Witness ==
    /\ factcheck # NoRun
    /\ \E j, k \in NetworkResponses :
         /\ responses[j].res.kind = "http_error" /\ responses[j].res.items # <<>>
         /\ responses[k].res.kind = "ok" /\ responses[k].res.items # <<>>
    /\ responses[Len(responses)].res.kind = "timeout"
    /\ Len(factcheck.scored.evidence) = 1

-----------------------------------------------------------------------------
(* Claims about the refresh rate limit, checked under SpecRefresh *)

\* C12: under every interleaving of non-forced refresh_news_index calls, two
\* calls that pull feeds have timestamps (the now_ts each call compares and
\* stores) at least the minimum gap apart, so no window shorter than the gap
\* holds two refreshes; a call that finds the last refresh younger than the
\* gap returns refreshed = False and fetches, upserts, prunes and advances
\* the feed cursor not at all.
C12_RefreshRateLimit ==
    /\ [](\A i, j \in 1..Len(pulls) :
            i < j => pulls[j].now_ts - pulls[i].now_ts >= MinGapSec)
    /\ [][\A t \in Threads :
            (rpc[t] = "locked" /\ rpc'[t] # "locked"
                 /\ RateLimited(LatestTs, now_ts[t])) =>
                /\ rpc'[t] = "idle"
                /\ refreshed'[t] = "false"
                /\ pulls' = pulls
                /\ db_latest_fetch' = db_latest_fetch
                /\ prunes' = prunes
                /\ NEWS_FEED_CURSOR' = NEWS_FEED_CURSOR
                /\ NEWS_LAST_REFRESH_TS' = NEWS_LAST_REFRESH_TS]_vars

\* two threads have refreshed a gap apart, and a third, which waited for
\* the lock while the second one pulled, was turned away
C12_Witness ==
    /\ Len(pulls) = 2
    /\ pulls[1].thread # pulls[2].thread
    /\ NEWS_LAST_REFRESH_TS = pulls[2].now_ts
    /\ \E t \in Threads :
         /\ t \notin {pulls[1].thread, pulls[2].thread}
         /\ refreshed[t] = "false"
         /\ rpc[t] = "idle"

-----------------------------------------------------------------------------
(* Claims about the persistent index, checked under SpecIndex *)

\* the key of a row: UNIQUE(source, link)
RowKey(row) == <<row.source, row.link>>

\* the positions of the committed rows of a key
LoggedAt(key) == {i \in 1..Len(upsert_log) : RowKey(upsert_log[i].row) = key}

\* C13: under every interleaving of db_upsert_news_items calls the index
\* holds at most one row per (source, link), every key that was upserted has
\* its row, the row carries what the upsert of that key that ran last wrote,
\* and no row lacks a source, a link or a title.
C13_OneRowPerKey ==
    /\ \A i, j \in 1..Len(news_index) :
         RowKey(news_index[i]) = RowKey(news_index[j]) => i = j
    /\ \A i \in 1..Len(news_index) :
         /\ ~RowSkipped(news_index[i])
         /\ LoggedAt(RowKey(news_index[i])) # {}
    /\ \A k \in 1..Len(upsert_log) :
         \E i \in 1..Len(news_index) :
             /\ RowKey(news_index[i]) = RowKey(upsert_log[k].row)
             /\ \/ news_index[i] = upsert_log[k].row
                \/ \E later \in LoggedAt(RowKey(upsert_log[k].row)) : later > k

\* two threads have upserted the same key with different titles, the index
\* holds the title committed last next to a row of another key, and items
\* without a source, a link or a title were handed over on the way
C13_Witness ==
    /\ Len(news_index) = 2
    /\ skipped > 0
    /\ \E i, j \in 1..Len(upsert_log) :
         /\ i < j
         /\ RowKey(upsert_log[i].row) = RowKey(upsert_log[j].row)
         /\ upsert_log[i].thread # upsert_log[j].thread
         /\ upsert_log[i].row.title # upsert_log[j].row.title
         /\ \E r \in 1..Len(news_index) : news_index[r] = upsert_log[j].row

-----------------------------------------------------------------------------
(* Claims about the AI response cache, checked under SpecCache *)

\* the dict of thread t's put after line 3113, before anything is removed
PutFull(t) ==
    Stored(AI_RESPONSE_CACHE, cache_key[t], cache_now[t] + AI_CACHE_TTL_SEC)

\* thread t leaves _ai_cache_put in this step
PutReturns(t) == cpc[t] = "put_locked" /\ cpc'[t] = "idle"

\* the cache holds at most AI_CACHE_MAX_ITEMS entries after every put
CacheBounded ==
    [][\A t \in CacheThreads :
          PutReturns(t) => Len(AI_RESPONSE_CACHE') <= AI_CACHE_MAX_ITEMS]_vars

\* a put that goes over the cap removes entries of the earliest expiry: no
\* entry it keeps expires before an entry it removes
EvictsEarliestExpiry ==
    [][\A t \in CacheThreads :
          (PutReturns(t) /\ Len(PutFull(t)) > AI_CACHE_MAX_ITEMS) =>
              /\ AI_RESPONSE_CACHE' = PopAll(PutFull(t), OldItems(PutFull(t)), 1)
              /\ \A p \in OldItems(PutFull(t)) :
                   \A q \in (1..Len(PutFull(t))) \ OldItems(PutFull(t)) :
                       PutFull(t)[p] <= PutFull(t)[q]]_vars

\* C14: after every _ai_cache_put, under every interleaving of gets and
\* puts, the cache holds at most AI_CACHE_MAX_ITEMS entries; a put that
\* goes over the cap removes the entries of the earliest expiry, and the
\* entry it has just written is not one of them.
C14_CacheBoundedEvictsOldest ==
    [][\A t \in CacheThreads :
          PutReturns(t) =>
              /\ Len(AI_RESPONSE_CACHE') <= AI_CACHE_MAX_ITEMS
              /\ Len(PutFull(t)) > AI_CACHE_MAX_ITEMS =>
                   /\ AI_RESPONSE_CACHE' = PopAll(PutFull(t), OldItems(PutFull(t)), 1)
                   /\ \A p \in OldItems(PutFull(t)) :
                        \A q \in (1..Len(PutFull(t))) \ OldItems(PutFull(t)) :
                            PutFull(t)[p] <= PutFull(t)[q]
                   /\ StoredAt(AI_RESPONSE_CACHE, cache_key[t]) \notin OldItems(PutFull(t))]_vars

-----------------------------------------------------------------------------
(* Claims about the blender, checked under SpecScore *)

\* C15: whatever the scorer's result and the AI web verdict, the confidence
\* of the blended result is at least the confidence of the scorer's result.
C15_BlendNeverLowersConfidence ==
    blended # NoResult => blended.confidence >= scored.confidence

\* C15 witness: a verdict of lower confidence than the scorer's was blended
\* in, the truth probability moved and the confidence stayed
C15_Witness ==
    /\ WasBlended
    /\ ai_web.confidence < scored.confidence
    /\ blended.truth_prob # scored.truth_prob
    /\ blended.confidence = scored.confidence

\* the sources of a reply that count: the canonical links of the cited
\* sources that have a link and a title
ValidSources(reply) ==
    {NormalizeFactUrl(reply.sources[i].url) :
        i \in {j \in 1..Len(reply.sources) : reply.sources[j].title > 0}} \ {""}

\* C16: an AI web verdict with fewer than 2 valid cited sources is never
\* blended: _ai_factcheck_web_verdict returns the empty verdict for it and
\* _blend_fact_scores returns the scorer's result as it got it; when a
\* verdict is blended, the blend weight lies in [0.22, 0.50], so the truth
\* probability moves at most half of the way to the AI's.
C16_FewSourcesNeverBlended ==
    /\ (web_reply # NotAsked /\ web_reply # NoReply
        /\ Cardinality(ValidSources(web_reply)) < 2) =>
           returned_web = NoWebVerdict /\ blended = scored
    /\ (blended # NoResult /\ ai_web.sources < 2) => blended = scored
    /\ WasBlended =>
         /\ 2200 <= BlendWeight(ai_web.confidence)
         /\ BlendWeight(ai_web.confidence) <= 5000
         /\ Abs(blended.truth_prob - scored.truth_prob) * Scale
              <= BlendWeight(ai_web.confidence)
                   * Abs(ai_web.truth_prob - scored.truth_prob) + Scale

\* C16 witness: the AI cited two sources of which one had no title, and the
\* scorer's result came back as it was
C16_Witness ==
    /\ web_reply # NotAsked /\ web_reply # NoReply
    /\ Len(web_reply.sources) = 2
    /\ Cardinality(ValidSources(web_reply)) = 1
    /\ scored.evidence # <<>>
    /\ blended = scored

-----------------------------------------------------------------------------
(* Claims about the local summarizer, checked under SpecSummary *)

\* C17: every text on which the scam detector fires is answered with the
\* scam template, whatever the number of its sentences and whether or not
\* it has ranked-list sentences.
C17_ScamTextGetsTemplate ==
    (spc = "done" /\ IsProbableFinancialScamText(sum_source)) =>
        sum_body.path = "scam"

\* the scam test of line 4026 decides for the texts of several sentences
\* that are no ranked list
ScamTemplateOnLastPath ==
    (spc = "done" /\ IsProbableFinancialScamText(sum_source)
     /\ Len(sum_source.sentences) > 1 /\ Len(RankedPoints(sum_source)) < 2) =>
        sum_body.path = "scam"

\* the largest floor a budget of the summarizer has (line 3920)
SummaryFloor == 170

\* C18: the output for a non-empty text is not empty and no longer than
\* 60% of the cleaned text, the floor for short texts apart, on every path,
\* and the loop of the renderer ends.
C18_SummaryWithinBudget ==
    /\ [](spc = "done" =>
            /\ sum_body.chars > 0
            /\ sum_body.chars <= Max(SummaryFloor, (60 * SourceLen(sum_source)) \div 100))
    /\ (spc = "rendering" ~> spc = "done")

\* what _render_summary_sections returns is within 60% of the text or the
\* floor
RenderedWithinBudget ==
    (spc = "done" /\ sum_body.path \in {"render", "render_safe"}) =>
        /\ sum_body.chars > 0
        /\ sum_body.chars <= Max(SummaryFloor, (60 * SourceLen(sum_source)) \div 100)

\* the loop of _render_summary_sections returns
RendererReturns == spc = "rendering" ~> spc = "done"

-----------------------------------------------------------------------------
(* The pull loop of refresh_news_index (lines 1293-1306) and the batches of
   _news_feed_batch (lines 1271-1281).  The loop runs under NEWS_LOCK, so one
   call is in it at a time; the calls here are the ones that passed the test
   of line 1290.  Time inside a call is counted in seconds. *)

\* NEWS_REFRESH_BUDGET_SEC (line 144, its default)
NEWS_REFRESH_BUDGET_SEC == 55

\* calls of refresh_news_index explored
MaxRefreshes == 5

\* the values NEWS_REFRESH_MAX_FEEDS can be given (line 145: at least 25):
\* below, at and above the number of configured feeds
MaxFeedsSettings == {NEWS_REFRESH_MAX_FEEDS, 150, FeedCount, FeedCount + 1}

\* the seconds one _fetch_rss_items plus db_upsert_news_items can take
FetchSeconds == {0, 11, 22}

\* _news_feed_batch with the cursor frozen
NewsFeedBatchFromStart(cursor, max_count) ==
    LET cap == Max(1, Min(max_count, FeedCount))
    IN  IF FeedCount <= cap
        THEN [batch |-> [i \in 1..FeedCount |-> i - 1], cursor |-> cursor]
        ELSE [batch |-> [i \in 1..cap |-> ((cursor % FeedCount) + i - 1) % FeedCount],
              cursor |-> cursor]

\* _news_feed_batch(NEWS_SOURCE_FEEDS, max_count) (lines 1271-1281): the batch
\* as positions in NEWS_SOURCE_FEEDS, and NEWS_FEED_CURSOR afterwards
NewsFeedBatch(cursor, max_count) ==
    LET cap == Max(1, Min(max_count, FeedCount))
        start == cursor % FeedCount
    IN  IF FeedCount <= cap
        THEN [batch |-> [i \in 1..FeedCount |-> i - 1], cursor |-> cursor]
        ELSE [batch |-> [i \in 1..cap |-> (start + i - 1) % FeedCount],
              cursor |-> (start + cap) % FeedCount]

\* a loop that never looks at the clock
OverBudgetNever(seconds) == FALSE

\* the test of line 1298 for a call that is not forced
OverBudget(seconds) == seconds > NEWS_REFRESH_BUDGET_SEC

\* the variables the pull loop leaves alone
NotBatchVars ==
    <<scoreVars, claim_neg, retrievalVars, reportVars, channelVars, indexVars,
      cacheVars, summaryVars, similarityVars, storeVars, quotaVars>>

InitBatch ==
    /\ ScoreIdle
    /\ ReportIdle
    /\ claim_neg = FALSE
    /\ RetrievalIdle
    /\ ChannelIdle /\ RefreshIdle /\ IndexIdle /\ CacheIdle /\ SummaryIdle
    /\ SimilarityIdle
    /\ StoreIdle
    /\ QuotaIdle /\ ai_daily_limit = 50
    /\ BatchIdle
    /\ max_feeds \in MaxFeedsSettings

\* lines 1286, 1293-1296: a call that is not rate limited reads the clock and
\* takes its batch
StartPull ==
    /\ bpc = "idle"
    /\ Len(batches) < MaxRefreshes
    /\ LET taken == NewsFeedBatch(NEWS_FEED_CURSOR, max_feeds)
       IN  /\ feed_batch' = taken.batch
           /\ NEWS_FEED_CURSOR' = taken.cursor
           /\ batches' = Append(batches, taken.batch)
    /\ now_ts' = [now_ts EXCEPT !["scheduler"] = clock]
    /\ pulled_feeds' = <<>>
    /\ used_feeds' = 0
    /\ elapsed' = 0
    /\ refresh_info' = NoInfo
    /\ bpc' = "pulling"
    /\ UNCHANGED <<clock, NEWS_LOCK, NEWS_LAST_REFRESH_TS, db_latest_fetch, rpc,
                   refreshed, pulls, prunes, max_feeds>>
    /\ UNCHANGED NotBatchVars

\* lines 1297-1303: one turn of the loop that passes the test of line 1298
FetchBatchFeed ==
    /\ bpc = "pulling"
    /\ Len(pulled_feeds) < Len(feed_batch)
    /\ ~OverBudget(elapsed)
    /\ pulled_feeds' = Append(pulled_feeds, feed_batch[Len(pulled_feeds) + 1])
    /\ used_feeds' = used_feeds + 1
    /\ \E seconds \in FetchSeconds : elapsed' = elapsed + seconds
    /\ UNCHANGED <<max_feeds, bpc, feed_batch, refresh_info, batches>>
    /\ UNCHANGED refreshVars
    /\ UNCHANGED NotBatchVars

\* lines 1297-1299, 1304-1306: the loop ends, by exhaustion or by the break, and
\* the call records, prunes and returns; the next call comes a gap later
FinishPull ==
    /\ bpc = "pulling"
    /\ Len(pulled_feeds) = Len(feed_batch) \/ OverBudget(elapsed)
    /\ NEWS_LAST_REFRESH_TS' = now_ts["scheduler"]
    /\ prunes' = prunes + 1
    /\ refresh_info' = [refreshed |-> TRUE, feeds |-> used_feeds]
    /\ bpc' = "idle"
    /\ clock' = clock + MinGapSec
    /\ UNCHANGED <<max_feeds, feed_batch, pulled_feeds, used_feeds, elapsed, batches>>
    /\ UNCHANGED <<NEWS_LOCK, NEWS_FEED_CURSOR, db_latest_fetch, rpc, now_ts,
                   refreshed, pulls>>
    /\ UNCHANGED NotBatchVars

NextBatch == StartPull \/ FetchBatchFeed \/ FinishPull

\* a call that is in the loop keeps running: the thread is scheduled and every
\* fetch returns (line 1176 bounds each request by NEWS_HTTP_TIMEOUT)
SpecBatch ==
    InitBatch /\ [][NextBatch]_vars /\ WF_vars(FetchBatchFeed) /\ WF_vars(FinishPull)

-----------------------------------------------------------------------------
(* Items on their way through the index: db_upsert_news_items stores them,
   db_search_news_candidates reads them back, _score_factcheck weighs them *)

\* calls of db_upsert_news_items explored
MaxStores == 2

\* the items stored: a publisher hinted high, one hinted medium and one
\* without a hint ("AP Top" is the name of a configured feed of tier high),
\* each with every tier
StoreItems ==
    [source : {"reuters", "tabnak", "ap top"}, link : {"u1", "u2"},
     title : {"xa"}, source_tier : Tiers, fetched_at : {NowDays}]

\* the dict built from one row of news_index (lines 1716-1731): the tier is
\* inferred from the source name, the stored tier being the fallback
SearchedItem(row) ==
    [source |-> row.source, link |-> row.link, title |-> row.title,
     source_tier |-> InferSourceTier(row.source, row.source_tier),
     fetched_at |-> row.fetched_at]

\* db_search_news_candidates without query tokens (lines 1703-1731), the rows
\* in the order of the table
DbSearchNewsCandidates(table) ==
    [i \in 1..Len(table) |-> SearchedItem(table[i])]

\* source_weight of lines 1981-1982
SourceWeight(item) ==
    SOURCE_TIER_WEIGHTS[InferSourceTier(item.source, item.source_tier)]

\* the variables the round trip leaves alone
NotStoreVars ==
    <<scoreVars, claim_neg, retrievalVars, reportVars, channelVars, refreshVars,
      cacheVars, summaryVars, similarityVars, batchVars, quotaVars>>

InitStore ==
    /\ ScoreIdle
    /\ ReportIdle
    /\ claim_neg = FALSE
    /\ RetrievalIdle
    /\ ServiceIdle

\* db_upsert_news_items(items) by one thread (lines 1186-1236)
StoreBatch ==
    /\ Len(stored_items) < MaxStores
    /\ \E item \in StoreItems :
         /\ news_index' = ExecuteMany(news_index, BuildRows(<<item>>))
         /\ stored_items' = Append(stored_items, item)
    /\ found' = <<>>
    /\ UNCHANGED <<DB_LOCK, upc, rows, upsert_log, skipped, upsert_calls>>
    /\ UNCHANGED NotStoreVars

\* db_search_news_candidates(query, limit) (lines 1676-1731)
SearchCandidates ==
    /\ news_index # <<>>
    /\ found = <<>>
    /\ found' = DbSearchNewsCandidates(news_index)
    /\ UNCHANGED <<stored_items, indexVars>>
    /\ UNCHANGED NotStoreVars

NextStore == StoreBatch \/ SearchCandidates

SpecStore == InitStore /\ [][NextStore]_vars

-----------------------------------------------------------------------------
(* The daily AI quota of a group: run_ai_chat on the worker threads of the
   bot, all requests in one group on one day *)

\* calls of run_ai_chat explored
MaxRequests == 4

\* the values of the setting ai_daily_limit explored
LimitSettings == {0, 1, 2}

\* get_group_ai_limit (lines 2753-2760)
GetGroupAiLimit(value) == Max(1, Min(500, value))

\* the variables run_ai_chat leaves alone
NotQuotaVars ==
    <<scoreVars, claim_neg, retrievalVars, reportVars, channelVars, refreshVars,
      indexVars, cacheVars, summaryVars, similarityVars, batchVars, storeVars>>

InitQuota ==
    /\ ScoreIdle
    /\ ReportIdle
    /\ claim_neg = FALSE
    /\ RetrievalIdle
    /\ ChannelIdle /\ RefreshIdle /\ IndexIdle /\ CacheIdle /\ SummaryIdle
    /\ SimilarityIdle
    /\ BatchIdle /\ max_feeds = 85
    /\ StoreIdle
    /\ QuotaIdle
    /\ ai_daily_limit \in LimitSettings

\* lines 4146-4153: the call reads the usage; with the quota used up it
\* replies so and returns, otherwise it goes on to ask the model
CheckQuota(t) ==
    /\ qpc[t] = "idle"
    /\ ai_requests < MaxRequests
    /\ ai_requests' = ai_requests + 1
    /\ group_used' = [group_used EXCEPT ![t] = group_ai_counts]
    /\ qpc' = [qpc EXCEPT ![t] =
                 IF group_ai_counts >= GetGroupAiLimit(ai_daily_limit)
                 THEN "idle" ELSE "asking"]
    /\ UNCHANGED <<ai_daily_limit, group_ai_counts, answered>>
    /\ UNCHANGED NotQuotaVars

\* lines 4175-4188: the model, asked twice at most, gives no answer; the call
\* replies that the AI is not available and returns
NoAnswer(t) ==
    /\ qpc[t] = "asking"
    /\ qpc' = [qpc EXCEPT ![t] = "idle"]
    /\ UNCHANGED <<ai_daily_limit, group_ai_counts, group_used, answered,
                   ai_requests>>
    /\ UNCHANGED NotQuotaVars

\* lines 4175-4195: the model answers and the answer is sent to the group
SendAnswer(t) ==
    /\ qpc[t] = "asking"
    /\ answered' = answered + 1
    /\ qpc' = [qpc EXCEPT ![t] = "sent"]
    /\ UNCHANGED <<ai_daily_limit, group_ai_counts, group_used, ai_requests>>
    /\ UNCHANGED NotQuotaVars

\* lines 4200-4201: consume_group_ai_usage adds one to the counter under
\* SETTINGS_LOCK (lines 2763-2771)
ConsumeGroupAiUsage(t) ==
    /\ qpc[t] = "sent"
    /\ group_ai_counts' = group_ai_counts + 1
    /\ qpc' = [qpc EXCEPT ![t] = "idle"]
    /\ UNCHANGED <<ai_daily_limit, group_used, answered, ai_requests>>
    /\ UNCHANGED NotQuotaVars

NextQuota ==
    \/ \E t \in ChatThreads : CheckQuota(t)
    \/ \E t \in ChatThreads : NoAnswer(t)
    \/ \E t \in ChatThreads : SendAnswer(t)
    \/ \E t \in ChatThreads : ConsumeGroupAiUsage(t)

SpecQuota == InitQuota /\ [][NextQuota]_vars

-----------------------------------------------------------------------------
(* Claims about the end-to-end scenarios, checked under SpecScenario *)

\* C19: one evidence item labelled "related" from a source of the medium
\* tier gives a confidence under 0.45 and the verdict "uncertain", whatever
\* its relevance, label confidence and age.
C19_OneRelatedItemUncertain ==
    (scored # NoResult /\ Len(items) = 1
     /\ scored.evidence[1].label = "related"
     /\ scored.evidence[1].tier = "medium") =>
        /\ scored.confidence < 4500
        /\ scored.verdict = VerdictUncertain

C19_Witness ==
    /\ scored # NoResult
    /\ Len(items) = 1
    /\ scored.evidence[1].label = "related"
    /\ scored.evidence[1].tier = "medium"
    /\ scored.evidence[1].label_conf = 10000
    /\ items[1].relevance = 10000
    /\ items[1].published_ts = NowDays
    /\ scored.confidence > 3900

\* is_recent of line 2196 for a scored item: published within
\* FACTCHECK_RECENT_DAYS
PublishedRecently(e) ==
    ScoreTimestamp(e.item, NowDays) >= NowDays - FACTCHECK_RECENT_DAYS

\* a scored list of two recent supporting items of the high tier and one
\* old refuting item of the low tier
TwoSupportsOneRefute ==
    /\ scored # NoResult
    /\ Len(items) = 3
    /\ \E r \in 1..3 :
         /\ scored.evidence[r].label = "refute"
         /\ scored.evidence[r].tier = "low"
         /\ ~PublishedRecently(scored.evidence[r])
         /\ \A i \in 1..3 \ {r} :
              /\ scored.evidence[i].label = "support"
              /\ scored.evidence[i].tier = "high"
              /\ PublishedRecently(scored.evidence[i])

\* C20 as stated: two recent supporting items of the high tier and one old
\* refuting item of the low tier give truth_prob > 0.65 and the verdict
\* "likely true".
C20_SupportOutweighsRefute ==
    TwoSupportsOneRefute =>
        /\ scored.truth_prob > 6500
        /\ scored.verdict = VerdictTrue

\* the labels are those of _heuristic_label and the supporting items are at
\* most 14 days old
HeuristicAndFresh ==
    /\ \A i \in 1..Len(ai_labels) : ai_labels[i] = NoAi
    /\ \A i \in 1..Len(scored.evidence) :
         scored.evidence[i].label = "support" =>
            ScoreTimestamp(scored.evidence[i].item, NowDays) >= NowDays - 14

\* C20 amended: with the labels of _heuristic_label and supporting items at
\* most 14 days old, two supporting items of the high tier and one refuting
\* item of the low tier older than FACTCHECK_RECENT_DAYS give
\* truth_prob > 0.65 and the verdict "likely true".
C20_FreshSupportOutweighsRefute ==
    (TwoSupportsOneRefute /\ HeuristicAndFresh) =>
        /\ scored.truth_prob > 6500
        /\ scored.verdict = VerdictTrue

C20_Witness ==
    /\ TwoSupportsOneRefute
    /\ HeuristicAndFresh
    /\ \E i \in 1..3 :
         /\ scored.evidence[i].label = "support"
         /\ scored.evidence[i].item.relevance = 5000
         /\ scored.evidence[i].item.published_ts = NowDays - 14
    /\ \E r \in 1..3 :
         /\ scored.evidence[r].label = "refute"
         /\ scored.evidence[r].item.relevance = 10000
    /\ scored.source_count = 0

-----------------------------------------------------------------------------
(* Claims about the similarity engine, checked under SpecSimilarity *)

\* the call has returned
Compared == similarity # NoValue

\* C21: the similarity is symmetric, it is 1.0 for two equal texts that are
\* not empty, it is 0.0 when a text is empty after normalization, and it is
\* always in [0, 1].
C21_SimilaritySymmetricReflexive ==
    Compared =>
        /\ similarity = TextSimilarity(sim_right, sim_left)
        /\ (sim_left = sim_right /\ NormalizeFaText(sim_left) # <<>>
               => similarity = Scale)
        /\ (NormalizeFaText(sim_left) = <<>> \/ NormalizeFaText(sim_right) = <<>>
               => similarity = 0)
        /\ similarity >= 0
        /\ similarity <= Scale

\* the similarity of a text with itself, of an empty text, and its range
SimilarityReflexiveAndBounded ==
    Compared =>
        /\ (sim_left = sim_right /\ NormalizeFaText(sim_left) # <<>>
               => similarity = Scale)
        /\ (NormalizeFaText(sim_left) = <<>> \/ NormalizeFaText(sim_right) = <<>>
               => similarity = 0)
        /\ similarity >= 0
        /\ similarity <= Scale

-----------------------------------------------------------------------------
(* Claims about the ranking, checked under SpecRanking *)

\* 0.82 * relevance + 0.18 * freshness with freshness = 1 / (1 + age_days / 14)
StrictScore(e) ==
    Mul(8200, e.relevance) + Mul(1800, RoundDiv(Scale * 14, 14 + AgeDays(e, NowDays)))

\* the final list is in descending order of score, ties by the more recent
\* timestamp first
OrderedBy(list, Score(_)) ==
    \A i \in 1..Len(list) : \A j \in (i + 1)..Len(list) :
        \/ Score(list[i]) > Score(list[j])
        \/ /\ Score(list[i]) = Score(list[j])
           /\ NewsItemTimestamp(list[i]) >= NewsItemTimestamp(list[j])

\* C22 as stated: the final candidate list is in descending order of
\* 0.82 * relevance + 0.18 * freshness, freshness = 1 / (1 + age_days / 14),
\* ties by the more recent timestamp, for strict and relaxed items alike.
C22_RankedByStrictScore ==
    factcheck # NoRun => OrderedBy(factcheck.selected, StrictScore)

\* the rank_score the pass that admitted the item gives it
PassScore(e) ==
    IF StrictAdmits(e, NowDays) THEN StrictRanked(e, NowDays).rank_score
    ELSE RelaxedRanked(e, NowDays).rank_score

\* C22 amended: the final candidate list is in descending order of
\* rank_score, ties by the more recent timestamp, where rank_score is
\* 0.82 * relevance + 0.18 / (1 + age_days / 14) for an item the strict pass
\* admitted and 0.86 * relevance + 0.14 / (1 + age_days / 18) for an item the
\* relaxed pass admitted.
C22_RankedByPassScore ==
    factcheck # NoRun =>
        /\ OrderedBy(factcheck.selected, PassScore)
        /\ \A i \in 1..Len(factcheck.selected) :
             factcheck.selected[i].rank_score = PassScore(factcheck.selected[i])

C22_Witness ==
    /\ factcheck # NoRun
    /\ Len(factcheck.selected) = 3
    /\ \E i \in 1..2 :
         /\ ~StrictAdmits(factcheck.selected[i], NowDays)
         /\ StrictAdmits(factcheck.selected[i + 1], NowDays)
         /\ StrictScore(factcheck.selected[i]) < StrictScore(factcheck.selected[i + 1])

-----------------------------------------------------------------------------
(* Claims about the labels and the result dict, checked under SpecScenario *)

\* one item was scored with the label of _heuristic_label
HeuristicSingle ==
    /\ scored # NoResult
    /\ Len(items) = 1
    /\ ai_labels[1] = NoAi

\* the labels at and above relevance 0.50 and the absence of "support" and
\* "refute" below it
HeuristicStance ==
    LET e == scored.evidence[1]
    IN  /\ e.label \in Labels
        /\ (e.item.relevance >= 5000 =>
              e.label = (IF claim_neg # e.item.neg THEN "refute" ELSE "support"))
        /\ (e.item.relevance < 5000 => e.label \in {"related", "irrelevant"})

\* C23 as stated: the heuristic label is "irrelevant" for low relevance, from
\* relevance 0.50 on it is "refute" exactly when claim and evidence disagree
\* on a negation and "support" otherwise, never "support" or "refute" below
\* 0.50, and "related" for every relevance from 0.14 up to 0.50.
C23_RelatedFromIrrelevanceThreshold ==
    HeuristicSingle =>
        /\ HeuristicStance
        /\ (scored.evidence[1].item.relevance < 1400 =>
              scored.evidence[1].label = "irrelevant")
        /\ (scored.evidence[1].item.relevance >= 1400
            /\ scored.evidence[1].item.relevance < 5000 =>
              scored.evidence[1].label = "related")

\* C23 amended: as stated, but "related" for every relevance from 0.24 up to
\* 0.50 and "irrelevant" for every relevance below 0.24.
C23_RelatedFromRelatedThreshold ==
    HeuristicSingle =>
        /\ HeuristicStance
        /\ (scored.evidence[1].item.relevance < 2400 =>
              scored.evidence[1].label = "irrelevant")
        /\ (scored.evidence[1].item.relevance >= 2400
            /\ scored.evidence[1].item.relevance < 5000 =>
              scored.evidence[1].label = "related")

C23_Witness ==
    /\ HeuristicSingle
    /\ scored.evidence[1].item.relevance = 1400
    /\ scored.evidence[1].label = "irrelevant"
    /\ scored.evidence[1].label_conf = 3300

\* the permutations of 1..n
Orderings(n) ==
    {p \in [1..n -> 1..n] : \A i \in 1..n : \E j \in 1..n : p[j] = i}

\* C24: the evidence list of a scored result is in non-increasing order of
\* |effect|, holds exactly the items that were scored, the three label counts
\* together and source_count are at most the number of items, and
\* source_count is the number of distinct non-empty publishers.
C24_EvidenceSortedAndCounted ==
    (scored # NoResult /\ items # <<>>) =>
        /\ \A i \in 1..(Len(scored.evidence) - 1) :
             Abs(scored.evidence[i].effect) >= Abs(scored.evidence[i + 1].effect)
        /\ Len(scored.evidence) = Len(items)
        /\ \E p \in Orderings(Len(items)) :
             \A i \in 1..Len(items) : scored.evidence[i].item = items[p[i]]
        /\ scored.support_count + scored.refute_count + scored.related_count
             <= Len(scored.evidence)
        /\ scored.source_count <= Len(scored.evidence)
        /\ scored.source_count =
             Cardinality({NormalizeText(items[i].source) : i \in 1..Len(items)} \ {""})

C24_Witness ==
    /\ scored # NoResult
    /\ Len(items) = 3
    /\ scored.evidence[1].item = items[3]
    /\ Abs(scored.evidence[1].effect) > Abs(scored.evidence[2].effect)
    /\ scored.source_count = 2
    /\ scored.support_count + scored.refute_count = 3

\* C27: a scored result with score_reason "no_evidence" carries the neutral
\* numbers, truth_prob = fake_prob = 0.5, and the verdict "uncertain", for
\* an empty evidence list and for a list whose items are all labelled
\* "irrelevant" or have no source name.
C27_NoEvidenceIsNeutral ==
    (scored # NoResult /\ scored.score_reason = "no_evidence") =>
        /\ scored.truth_prob = 5000
        /\ scored.fake_prob = 5000
        /\ scored.verdict = VerdictUncertain

\* a list whose items are all labelled "irrelevant" is "no_evidence" with
\* the verdict "uncertain", and truth_prob is 0.44 + 0.12 * coverage
IrrelevantListIsUncertain ==
    (scored # NoResult /\ items # <<>>
     /\ \A i \in 1..Len(scored.evidence) : scored.evidence[i].label = "irrelevant") =>
        /\ scored.score_reason = "no_evidence"
        /\ scored.verdict = VerdictUncertain
        /\ scored.truth_prob = 4400 + Mul(1200, RoundDiv(scored.source_count * Scale, 6))

-----------------------------------------------------------------------------
(* Claims about the pull loop and the batches, checked under SpecBatch *)

\* the feeds of a batch, as a set
FeedsOf(batch) == {batch[i] : i \in 1..Len(batch)}

\* C25: a refresh that is not forced starts no feed fetch once more than
\* NEWS_REFRESH_BUDGET_SEC seconds have passed since it began pulling; it
\* still returns, and when it returns it has recorded its own timestamp as the
\* last refresh, pruned the index, and reported refreshed=True with feeds equal
\* to the number of feeds it pulled.
C25_BudgetedRefreshCompletes ==
    /\ [][Len(pulled_feeds') > Len(pulled_feeds)
            => elapsed <= NEWS_REFRESH_BUDGET_SEC]_vars
    /\ (bpc = "pulling" ~> bpc = "idle")
    /\ [][bpc = "pulling" /\ bpc' = "idle"
            => /\ NEWS_LAST_REFRESH_TS' = now_ts["scheduler"]
               /\ prunes' = prunes + 1
               /\ refresh_info' = [refreshed |-> TRUE, feeds |-> Len(pulled_feeds)]]_vars

\* a call has returned after the budget cut its batch short
C25_Witness ==
    /\ bpc = "idle"
    /\ refresh_info # NoInfo
    /\ elapsed > NEWS_REFRESH_BUDGET_SEC
    /\ refresh_info.feeds = Len(pulled_feeds)
    /\ refresh_info.feeds > 0
    /\ refresh_info.feeds < Len(feed_batch)
    /\ NEWS_LAST_REFRESH_TS = now_ts["scheduler"]

\* C26: with more feeds than the cap, every batch has exactly cap distinct
\* feeds and starts where the batch before it ended, the cursor stays in
\* [0, feeds), and any ceil(feeds/cap) batches in a row contain every feed;
\* with no more feeds than the cap, every batch is the whole list and the
\* cursor does not move.
C26_RoundRobinBatches ==
    LET cap == Max(1, Min(max_feeds, FeedCount))
        rounds == (FeedCount + cap - 1) \div cap
    IN  /\ NEWS_FEED_CURSOR \in 0..(FeedCount - 1)
        /\ FeedCount > cap =>
            /\ \A n \in 1..Len(batches) :
                /\ Len(batches[n]) = cap
                /\ Cardinality(FeedsOf(batches[n])) = cap
                /\ batches[n][1] =
                     IF n = 1 THEN 0 ELSE (batches[n - 1][cap] + 1) % FeedCount
            /\ \A n \in 1..(Len(batches) - rounds + 1) :
                UNION {FeedsOf(batches[m]) : m \in n..(n + rounds - 1)}
                    = 0..(FeedCount - 1)
        /\ FeedCount <= cap =>
            /\ \A n \in 1..Len(batches) :
                batches[n] = [i \in 1..FeedCount |-> i - 1]
            /\ NEWS_FEED_CURSOR = 0

\* four batches of 85 have been taken from the 297 feeds, the fourth having
\* wrapped around the end of the list
C26_Witness ==
    /\ max_feeds = NEWS_REFRESH_MAX_FEEDS
    /\ Len(batches) >= 4
    /\ {0, FeedCount - 1} \subseteq FeedsOf(batches[4])
    /\ NEWS_FEED_CURSOR = 43

-----------------------------------------------------------------------------
(* Claims about refreshes and fact-check traffic, checked under SpecRefresh *)

\* C28: a call of refresh_news_index that is not forced returns without
\* pulling only when some refresh that pulled feeds ended less than the
\* minimum gap before the call read the clock, whatever fact-check requests
\* have written into the index in the meantime.
C28_RefreshNotStarved ==
    [][\A t \in Threads :
          rpc[t] = "locked" /\ rpc'[t] = "idle"
              => \E p \in 1..Len(pulls) : now_ts[t] - pulls[p].until < MinGapSec]_vars

-----------------------------------------------------------------------------
(* Claims about the store round trip, checked under SpecStore *)

\* the item that was stored last under the key of a candidate read back
StoredAs(candidate) ==
    LET places == {i \in 1..Len(stored_items) :
                     /\ stored_items[i].source = candidate.source
                     /\ stored_items[i].link = candidate.link}
    IN  stored_items[CHOOSE i \in places : \A j \in places : j <= i]

\* C29: every candidate db_search_news_candidates returns has the source
\* weight in scoring that the item stored under its key had before it was
\* stored, for every source name and tier.
C29_TierSurvivesStore ==
    \A i \in 1..Len(found) : SourceWeight(found[i]) = SourceWeight(StoredAs(found[i]))

-----------------------------------------------------------------------------
(* Claims about the AI quota, checked under SpecQuota *)

\* C30: under every interleaving of the AI chat requests of one group on one
\* day, neither the group's usage counter nor the number of answers sent goes
\* above the group's daily limit, and quota is consumed by answered requests
\* only.
C30_QuotaNeverExceeded ==
    /\ group_ai_counts <= GetGroupAiLimit(ai_daily_limit)
    /\ answered <= GetGroupAiLimit(ai_daily_limit)
    /\ group_ai_counts <= answered

\* the part of C30 that holds: a request without an answer consumes nothing,
\* the counter counts the answers sent
ConsumedByAnswersOnly ==
    /\ group_ai_counts <= answered
    /\ answered - group_ai_counts = Cardinality({t \in ChatThreads : qpc[t] = "sent"})

=============================================================================
